---- MODULE Spec2Model ----
(***************************************************************************)
(* Model of the VannaSQL agent core: the request-scoped session cache      *)
(* (AsyncMemoryCache), SQL validation and synthesis retry                  *)
(* (MyVanna.is_sql_valid / generate_sql), the execution retry coordinator  *)
(* (run_sql_with_retry) and the relevance cutoff of the vector store       *)
(* (ChromaDB_VectorStore._extract_documents).                              *)
(***************************************************************************)
EXTENDS Integers, Sequences, FiniteSets, TLC

VARIABLES
  cache,      \* AsyncMemoryCache.cache : id -> (field -> value)
  lock,       \* AsyncMemoryCache._lock : the task holding it, or NoTask
  task,       \* per coroutine: position inside the cache call it is running
  shadow,     \* history: per (id, field) the value of the last completed set
  calls,      \* number of cache calls issued so far
  val,        \* one is_sql_valid call: its argument, position and result
  gen,        \* one MyVanna.generate_sql call
  retry,      \* one run_sql_with_retry call
  rel,        \* one vector-store query and the documents extracted from it
  store,      \* the three Chroma collections and the last vector-store call
  prompt,     \* one MyVanna.get_sql_prompt call
  http,       \* one run_sql request and the session entry it works on
  ext,        \* one extraction of SQL from a model response
  stream      \* one Ollama._submit_prompt_stream call and its events

cacheVars == <<cache, lock, task, shadow, calls>>

lastVars == <<ext, stream>>

moreVars == <<store, prompt, http, lastVars>>

textVars == <<val, gen, retry, rel, moreVars>>

vars == <<cache, lock, task, shadow, calls, val, gen, retry, rel, store, prompt, http,
         ext, stream>>

NoStore == [pc |-> "off"]
NoPrompt == [pc |-> "off"]
NoHttp == [pc |-> "off"]
NoExt == [pc |-> "off"]
NoStream == [pc |-> "off"]

LastOff == ext = NoExt /\ stream = NoStream

MoreOff == store = NoStore /\ prompt = NoPrompt /\ http = NoHttp /\ LastOff

(***************************************************************************)
(* Session cache: src/backend/app/vanna/fastapi/cache.py                   *)
(***************************************************************************)
Ids == {"A", "B"}
Fields == {"question", "sql", "df"}
Values == {"v1", "v2"}
None == "None"
NoTask == "free"
Clients == {"c1", "c2"}
Writers == {"w1", "w2", "w3"}

\* Upper bound on the number of cache calls issued in one behaviour.
MaxCalls == 3

\* self.cache[id] = {}  : a fresh dict, every field absent
EmptyEntry == [f \in Fields |-> None]

\* self.cache = {}
EmptyCache == [i \in {} |-> EmptyEntry]

\* variant: the body is entered without waiting for the lock
LockIgnored == TRUE

\* `async with self._lock` admits a task only while nobody holds the lock
LockFree == lock = NoTask

\* line 67: self.cache[id] = {}
CacheCreate(c, id) ==
  [i \in DOMAIN c \cup {id} |-> IF i = id THEN EmptyEntry ELSE c[i]]

\* variant: every entry aliases one dict, so the field is written for all ids
CacheStoreShared(c, id, f, v) ==
  [i \in DOMAIN c |-> [c[i] EXCEPT ![f] = v]]

\* variant: the entry is replaced by {field: value}, dropping its other fields
CacheStoreReplace(c, id, f, v) ==
  IF id \in DOMAIN c THEN [c EXCEPT ![id] = [EmptyEntry EXCEPT ![f] = v]] ELSE c

\* line 68: self.cache[id][field] = value   (KeyError when id is missing)
CacheStore(c, id, f, v) ==
  IF id \in DOMAIN c THEN [c EXCEPT ![id][f] = v] ELSE c

\* lines 72-74: None for an unknown id, else dict.get(field)
CacheGet(c, id, f) ==
  IF id \notin DOMAIN c THEN None ELSE c[id][f]

\* lines 78-84: one item per cached id, carrying each requested field
CacheGetAll(c, fl) ==
  [i \in DOMAIN c |-> [f \in fl |-> c[i][f]]]

\* lines 88-89: del self.cache[id] when present
CacheDelete(c, id) ==
  [i \in DOMAIN c \ {id} |-> c[i]]

IdleTask ==
  [pc |-> "idle", op |-> "none", id |-> "A", field |-> "sql", value |-> None,
   found |-> FALSE, result |-> None, expect |-> None]

\* a coroutine starts `await cache.<op>(...)`
Call(t) ==
  /\ task[t].pc = "idle"
  /\ calls < MaxCalls
  /\ \E op \in {"set", "get", "get_all", "delete"}, id \in Ids, f \in Fields, v \in Values :
       /\ (op \in {"get", "delete", "get_all"} => v = "v1")
       /\ (op \in {"delete", "get_all"} => f = "sql")
       /\ (op = "get_all" => id = "A")
       /\ task' = [task EXCEPT ![t] =
            [IdleTask EXCEPT !.pc = "acquire", !.op = op, !.id = id, !.field = f,
                             !.value = IF op = "set" THEN v ELSE None]]
  /\ calls' = calls + 1
  /\ UNCHANGED <<cache, lock, shadow, textVars>>

\* lines 65, 71, 77, 87: async with self._lock
Acquire(t) ==
  /\ task[t].pc = "acquire"
  /\ LockFree
  /\ lock' = t
  /\ task' = [task EXCEPT ![t].pc =
       CASE task[t].op = "set" -> "test"
         [] task[t].op = "get" -> "read"
         [] task[t].op = "get_all" -> "scan"
         [] OTHER -> "remove"]
  /\ UNCHANGED <<cache, shadow, calls, textVars>>

\* line 66: if id not in self.cache
SetTest(t) ==
  /\ task[t].pc = "test"
  /\ task' = [task EXCEPT ![t].found = task[t].id \in DOMAIN cache,
                          ![t].pc = IF task[t].id \in DOMAIN cache THEN "store" ELSE "create"]
  /\ UNCHANGED <<cache, lock, shadow, calls, textVars>>

\* line 67
SetCreate(t) ==
  /\ task[t].pc = "create"
  /\ cache' = CacheCreate(cache, task[t].id)
  /\ task' = [task EXCEPT ![t].pc = "store"]
  /\ UNCHANGED <<lock, shadow, calls, textVars>>

\* line 68, then the lock is released and set returns
SetStore(t) ==
  /\ task[t].pc = "store"
  /\ cache' = CacheStore(cache, task[t].id, task[t].field, task[t].value)
  /\ shadow' = [shadow EXCEPT ![task[t].id][task[t].field] = task[t].value]
  /\ lock' = NoTask
  /\ task' = [task EXCEPT ![t].pc = "done"]
  /\ UNCHANGED <<calls, textVars>>

GetReadCreates(t) ==
  /\ task[t].pc = "read"
  /\ task' = [task EXCEPT ![t].pc = "done",
                          ![t].result = CacheGet(cache, task[t].id, task[t].field),
                          ![t].expect = shadow[task[t].id][task[t].field]]
  /\ cache' = IF task[t].id \in DOMAIN cache THEN cache
              ELSE CacheCreate(cache, task[t].id)
  /\ lock' = NoTask
  /\ UNCHANGED <<shadow, calls, textVars>>

\* lines 72-74, then the lock is released and get returns
GetRead(t) ==
  /\ task[t].pc = "read"
  /\ task' = [task EXCEPT ![t].pc = "done",
                          ![t].result = CacheGet(cache, task[t].id, task[t].field),
                          ![t].expect = shadow[task[t].id][task[t].field]]
  /\ lock' = NoTask
  /\ UNCHANGED <<cache, shadow, calls, textVars>>

\* lines 78-84, then the lock is released and get_all returns
GetAllScan(t) ==
  /\ task[t].pc = "scan"
  /\ \E fl \in {{"question", "sql"}, Fields} :
       task' = [task EXCEPT ![t].pc = "done", ![t].result = CacheGetAll(cache, fl)]
  /\ lock' = NoTask
  /\ UNCHANGED <<cache, shadow, calls, textVars>>

\* lines 88-89, then the lock is released and delete returns
DeleteRemove(t) ==
  /\ task[t].pc = "remove"
  /\ cache' = CacheDelete(cache, task[t].id)
  /\ shadow' = [shadow EXCEPT ![task[t].id] = EmptyEntry]
  /\ lock' = NoTask
  /\ task' = [task EXCEPT ![t].pc = "done"]
  /\ UNCHANGED <<calls, textVars>>

\* the awaiting coroutine goes on and may issue its next call
Return(t) ==
  /\ task[t].pc = "done"
  /\ task' = [task EXCEPT ![t] = IdleTask]
  /\ UNCHANGED <<cache, lock, shadow, calls, textVars>>

InitCache ==
  /\ cache = EmptyCache
  /\ lock = NoTask
  /\ task = [t \in Clients |-> IdleTask]
  /\ shadow = [i \in Ids |-> EmptyEntry]
  /\ calls = 0
  /\ val = [sql |-> <<>>, pc |-> "off", ok |-> FALSE]
  /\ gen = [pc |-> "off"] /\ retry = [pc |-> "off"] /\ rel = [pc |-> "off"]
  /\ MoreOff

NextCache ==
  \E t \in DOMAIN task :
    \/ Call(t)
    \/ Acquire(t)
    \/ SetTest(t)
    \/ SetCreate(t)
    \/ SetStore(t)
    \/ GetRead(t)
    \/ GetAllScan(t)
    \/ DeleteRemove(t)
    \/ Return(t)

SpecCache == InitCache /\ [][NextCache]_vars

\* N writers, each already inside `await cache.set(id, field_t, value_t)` on one
\* id with pairwise different fields; the entry for id may or may not exist yet.
InitSetRace ==
  /\ \E id \in Ids, W \in (SUBSET Writers) \ {{}} :
       \E fs \in [W -> Fields], vs \in [W -> Values] :
         /\ \A a, b \in W : a # b => fs[a] # fs[b]
         /\ task = [t \in W |->
              [IdleTask EXCEPT !.pc = "acquire", !.op = "set", !.id = id,
                               !.field = fs[t], !.value = vs[t]]]
         /\ cache \in {EmptyCache, CacheCreate(EmptyCache, id)}
         /\ calls = Cardinality(W)
  /\ lock = NoTask
  /\ shadow = [i \in Ids |-> EmptyEntry]
  /\ val = [sql |-> <<>>, pc |-> "off", ok |-> FALSE]
  /\ gen = [pc |-> "off"] /\ retry = [pc |-> "off"] /\ rel = [pc |-> "off"]
  /\ MoreOff

NextSetRace ==
  \E t \in DOMAIN task :
    \/ Acquire(t)
    \/ SetTest(t)
    \/ SetCreate(t)
    \/ SetStore(t)

SpecSetRace == InitSetRace /\ [][NextSetRace]_vars

(***************************************************************************)
(* Text.  A Python str is modelled as the sequence of its characters.      *)
(***************************************************************************)
Letters == {"a", "b", "c", "d", "e", "f", "g", "h", "i", "j", "k", "l", "m", "n", "o", "p", "q", "r", "s", "t", "u", "v", "w", "x", "y", "z", "A", "B", "C", "D", "E", "F", "G", "H", "I", "J", "K", "L", "M", "N", "O", "P", "Q", "R", "S", "T", "U", "V", "W", "X", "Y", "Z"}
Digits == {"0", "1", "2", "3", "4", "5", "6", "7", "8", "9"}

\* str.lower() on one character
LowerCase == ("A" :> "a") @@ ("B" :> "b") @@ ("C" :> "c") @@ ("D" :> "d") @@ ("E" :> "e") @@ ("F" :> "f") @@ ("G" :> "g") @@ ("H" :> "h") @@ ("I" :> "i") @@ ("J" :> "j") @@ ("K" :> "k") @@ ("L" :> "l") @@ ("M" :> "m") @@ ("N" :> "n") @@ ("O" :> "o") @@ ("P" :> "p") @@ ("Q" :> "q") @@ ("R" :> "r") @@ ("S" :> "s") @@ ("T" :> "t") @@ ("U" :> "u") @@ ("V" :> "v") @@ ("W" :> "w") @@ ("X" :> "x") @@ ("Y" :> "y") @@ ("Z" :> "z")

Lower(c) == IF c \in DOMAIN LowerCase THEN LowerCase[c] ELSE c

\* str.lower()
LowerSeq(s) == [i \in 1..Len(s) |-> Lower(s[i])]

\* whitespace as str.strip() and the regex class \s see it
IsSpace(c) == c \in {" ", "\n", "\t", "\r"}

\* the regex class \d
IsDigit(c) == c \in Digits

\* the regex class \w
IsWord(c) == c \in Letters \cup Digits \cup {"_"}

\* str.strip()
Strip(s) ==
  LET keep == {i \in 1..Len(s) : ~IsSpace(s[i])}
  IN IF keep = {} THEN <<>>
     ELSE SubSeq(s, CHOOSE a \in keep : \A k \in keep : a <= k,
                    CHOOSE b \in keep : \A k \in keep : b >= k)

\* s[i:i+len(w)] == w
MatchAt(s, i, w) ==
  /\ i >= 1
  /\ i + Len(w) - 1 <= Len(s)
  /\ \A k \in 1..Len(w) : s[i + k - 1] = w[k]

\* the same, ignoring case (w is lower case)
MatchAtCI(s, i, w) ==
  /\ i >= 1
  /\ i + Len(w) - 1 <= Len(s)
  /\ \A k \in 1..Len(w) : Lower(s[i + k - 1]) = w[k]

\* str.startswith
StartsWith(s, w) == MatchAt(s, 1, w)

\* str.endswith
EndsWith(s, w) == MatchAt(s, Len(s) - Len(w) + 1, w)

\* str.count of a one-character string
Count(s, c) == Cardinality({i \in 1..Len(s) : s[i] = c})

\* str.count of a two-character string of different characters
Count2(s, a, b) == Cardinality({i \in 1..Len(s) - 1 : s[i] = a /\ s[i + 1] = b})

\* the regex assertion \b at the gap before position i
WordBoundary(s, i) ==
  LET before == i - 1 >= 1 /\ i - 1 <= Len(s) /\ IsWord(s[i - 1])
      after == i >= 1 /\ i <= Len(s) /\ IsWord(s[i])
  IN before # after

\* ends e of the non-empty runs s[i..e] of characters of one class
InClass(class, c) ==
  CASE class = "space" -> IsSpace(c)
    [] class = "digit" -> IsDigit(c)
    [] class = "word" -> IsWord(c)

RunEnds(s, i, class) ==
  {e \in i..Len(s) : \A k \in i..e : InClass(class, s[k])}

(***************************************************************************)
(* MyVanna.is_sql_valid: src/backend/app/vana_agent.py lines 113-166       *)
(***************************************************************************)
\* line 135: valid_statements
ValidStatements == {
  <<"s", "e", "l", "e", "c", "t">>,
  <<"i", "n", "s", "e", "r", "t">>,
  <<"u", "p", "d", "a", "t", "e">>,
  <<"d", "e", "l", "e", "t", "e">>,
  <<"w", "i", "t", "h">>,
  <<"s", "h", "o", "w">>,
  <<"d", "e", "s", "c", "r", "i", "b", "e">>,
  <<"e", "x", "p", "l", "a", "i", "n">>}

\* lines 122-129: sqlparse.parse yields a statement with tokens for any
\* text that is not blank
ParsedHasTokens(sql) == Strip(sql) # <<>>

\* lines 132-137
StartsWithStatement(sql) ==
  \E w \in ValidStatements : StartsWith(Strip(LowerSeq(sql)), w)

\* line 140: sql.count('(') != sql.count(')')
ParenCountsDiffer(sql) == Count(sql, "(") # Count(sql, ")")

\* lines 144-147
QuoteCountsOdd(sql) ==
  LET single_quotes == Count(sql, "'") - Count2(sql, "\\", "'")
      double_quotes == Count(sql, "\"") - Count2(sql, "\\", "\"")
  IN single_quotes % 2 # 0 \/ double_quotes % 2 # 0

\* line 152: \bTOP\s+\d+\b
HasTop(sql) ==
  \E i \in 1..Len(sql) :
    /\ WordBoundary(sql, i)
    /\ MatchAtCI(sql, i, <<"t", "o", "p">>)
    /\ \E a \in RunEnds(sql, i + 3, "space") :
         \E b \in RunEnds(sql, a + 1, "digit") : WordBoundary(sql, b + 1)

\* line 153: \bLIMIT\s+\d+\s+OFFSET\s+\d+
HasLimitOffset(sql) ==
  \E i \in 1..Len(sql) :
    /\ WordBoundary(sql, i)
    /\ MatchAtCI(sql, i, <<"l", "i", "m", "i", "t">>)
    /\ \E a \in RunEnds(sql, i + 5, "space") :
         \E b \in RunEnds(sql, a + 1, "digit") :
           \E c \in RunEnds(sql, b + 1, "space") :
             /\ MatchAtCI(sql, c + 1, <<"o", "f", "f", "s", "e", "t">>)
             /\ \E d \in RunEnds(sql, c + 7, "space") :
                  d + 1 <= Len(sql) /\ IsDigit(sql[d + 1])

\* line 154: \[\w+\]
HasBracketIdent(sql) ==
  \E i \in 1..Len(sql) :
    /\ sql[i] = "["
    /\ \E e \in RunEnds(sql, i + 1, "word") : e + 1 <= Len(sql) /\ sql[e + 1] = "]"

\* line 155: \$\d+
HasDollarParam(sql) ==
  \E i \in 1..Len(sql) - 1 : sql[i] = "$" /\ IsDigit(sql[i + 1])

\* lines 151-160
HasUnsupportedPattern(sql) ==
  HasTop(sql) \/ HasLimitOffset(sql) \/ HasBracketIdent(sql) \/ HasDollarParam(sql)

\* lines 113-166
is_sql_valid(sql) ==
  /\ sql # <<>>
  /\ ParsedHasTokens(sql)
  /\ StartsWithStatement(sql)
  /\ ~ParenCountsDiffer(sql)
  /\ ~QuoteCountsOdd(sql)
  /\ ~HasUnsupportedPattern(sql)

(***************************************************************************)
(* Text search helpers                                                     *)
(***************************************************************************)
\* str.find(w, start): the first index >= start where w occurs, 0 if none
IndexFrom(s, w, start) ==
  LET hits == {i \in start..Len(s) : MatchAt(s, i, w)}
  IN IF hits = {} THEN 0 ELSE CHOOSE i \in hits : \A k \in hits : i <= k

\* the same, ignoring case (w is lower case)
IndexFromCI(s, w, start) ==
  LET hits == {i \in start..Len(s) : MatchAtCI(s, i, w)}
  IN IF hits = {} THEN 0 ELSE CHOOSE i \in hits : \A k \in hits : i <= k

\* str.replace("\\_", "_")
RECURSIVE ReplaceEscapedUnderscore(_)
ReplaceEscapedUnderscore(s) ==
  IF s = <<>> THEN <<>>
  ELSE IF MatchAt(s, 1, <<"\\", "_">>)
       THEN <<"_">> \o ReplaceEscapedUnderscore(SubSeq(s, 3, Len(s)))
       ELSE <<Head(s)>> \o ReplaceEscapedUnderscore(Tail(s))

\* str.replace("\\", "")
NotBackslash(c) == c # "\\"

RemoveBackslashes(s) == SelectSeq(s, NotBackslash)

\* str.split('\n')
RECURSIVE SplitLines(_)
SplitLines(s) ==
  LET k == IndexFrom(s, <<"\n">>, 1)
  IN IF k = 0 THEN <<s>>
     ELSE <<SubSeq(s, 1, k - 1)>> \o SplitLines(SubSeq(s, k + 1, Len(s)))

\* '\n'.join(lines)
RECURSIVE JoinLines(_)
JoinLines(lines) ==
  IF lines = <<>> THEN <<>>
  ELSE IF Len(lines) = 1 THEN lines[1]
  ELSE lines[1] \o <<"\n">> \o JoinLines(Tail(lines))

\* the backquote character is written "bq"
Fence == <<"bq", "bq", "bq">>

(***************************************************************************)
(* Ollama.extract_sql: src/backend/app/vanna/ollama/ollama.py lines 55-86  *)
(***************************************************************************)
\* the lookahead (?=;|\[|```) at position i
TerminatorAt(s, i) ==
  /\ i >= 1 /\ i <= Len(s)
  /\ (s[i] = ";" \/ s[i] = "[" \/ MatchAt(s, i, Fence))

\* the first position >= start where the lookahead holds, 0 if none
FirstTerminator(s, start) ==
  LET hits == {i \in start..Len(s) : TerminatorAt(s, i)}
  IN IF hits = {} THEN 0 ELSE CHOOSE i \in hits : \A k \in hits : i <= k

\* line 72: ```sql\n((.|\n)*?)(?=;|\[|```) ; <<found, group 1>>
FencedSqlMatch(s) ==
  LET p == IndexFrom(s, <<"bq", "bq", "bq", "s", "q", "l", "\n">>, 1)
      t == IF p = 0 THEN 0 ELSE FirstTerminator(s, p + 7)
  IN IF t = 0 THEN <<FALSE, <<>>>> ELSE <<TRUE, SubSeq(s, p + 7, t - 1)>>

\* where the alternative (select|(with.*?as \()) ends when it matches at i and
\* a terminator follows, 0 otherwise
SelectWithEnd(s, i) ==
  IF MatchAtCI(s, i, <<"s", "e", "l", "e", "c", "t">>)
  THEN (IF FirstTerminator(s, i + 6) # 0 THEN i + 6 ELSE 0)
  ELSE IF MatchAtCI(s, i, <<"w", "i", "t", "h">>)
       THEN LET j == IndexFromCI(s, <<"a", "s", " ", "(">>, i + 4)
            IN IF j # 0 /\ FirstTerminator(s, j + 4) # 0 THEN j + 4 ELSE 0
       ELSE 0

\* lines 74-76: (select|(with.*?as \())(.*?)(?=;|\[|```) ; <<found, group 0>>
SelectWithMatch(s) ==
  LET starts == {i \in 1..Len(s) : SelectWithEnd(s, i) # 0}
  IN IF starts = {} THEN <<FALSE, <<>>>>
     ELSE LET i == CHOOSE a \in starts : \A k \in starts : a <= k
          IN <<TRUE, SubSeq(s, i, FirstTerminator(s, SelectWithEnd(s, i)) - 1)>>

\* str.replace("```", "")
RECURSIVE RemoveFences(_)
RemoveFences(s) ==
  IF s = <<>> THEN <<>>
  ELSE IF MatchAt(s, 1, Fence) THEN RemoveFences(SubSeq(s, 4, Len(s)))
  ELSE <<Head(s)>> \o RemoveFences(Tail(s))

\* lines 55-86
extract_sql(llm_response) ==
  LET r == RemoveBackslashes(ReplaceEscapedUnderscore(llm_response))
      sql == FencedSqlMatch(r)
      select_with == SelectWithMatch(r)
  IN IF sql[1] THEN RemoveFences(sql[2])
     ELSE IF select_with[1] THEN select_with[2]
     ELSE r

(***************************************************************************)
(* MyVanna._extract_sql_from_response: vana_agent.py lines 215-246         *)
(***************************************************************************)
\* lines 220-223: ```(?:sql)?\s*(.*?)\s*``` ; <<found, group(1).strip()>>
MarkdownBlockMatch(s) ==
  LET p == IndexFrom(s, Fence, 1)
      q == IF p = 0 THEN 0 ELSE IndexFrom(s, Fence, p + 3)
      g == IF MatchAtCI(s, p + 3, <<"s", "q", "l">>) THEN p + 6 ELSE p + 3
  IN IF q = 0 THEN <<FALSE, <<>>>> ELSE <<TRUE, Strip(SubSeq(s, g, q - 1))>>

\* line 226: sql_keywords
SqlKeywords == {
  <<"s", "e", "l", "e", "c", "t">>,
  <<"i", "n", "s", "e", "r", "t">>,
  <<"u", "p", "d", "a", "t", "e">>,
  <<"d", "e", "l", "e", "t", "e">>,
  <<"w", "i", "t", "h">>,
  <<"s", "h", "o", "w">>,
  <<"d", "e", "s", "c", "r", "i", "b", "e">>,
  <<"e", "x", "p", "l", "a", "i", "n">>}

\* line 233: re.search(sql_keywords, line, re.IGNORECASE)
HasSqlKeyword(line) ==
  \E i \in 1..Len(line), w \in SqlKeywords :
    /\ WordBoundary(line, i)
    /\ MatchAtCI(line, i, w)
    /\ WordBoundary(line, i + Len(w))

\* lines 227-240: the stripped lines from the first one holding a keyword up to
\* the first of them that ends with a semicolon
CapturedLines(response) ==
  LET raw == SplitLines(response)
      lines == [k \in 1..Len(raw) |-> Strip(raw[k])]
      keyed == {k \in 1..Len(lines) : HasSqlKeyword(lines[k])}
  IN IF keyed = {} THEN <<>>
     ELSE LET first == CHOOSE a \in keyed : \A k \in keyed : a <= k
              stops == {k \in first..Len(lines) : EndsWith(lines[k], <<";">>)}
              last == IF stops = {} THEN Len(lines)
                      ELSE CHOOSE a \in stops : \A k \in stops : a <= k
          IN SubSeq(lines, first, last)

\* lines 215-246
ExtractSqlFromResponse(response) ==
  LET match == MarkdownBlockMatch(response)
      sql_lines == CapturedLines(response)
  IN IF match[1] THEN match[2]
     ELSE IF sql_lines # <<>> THEN Strip(JoinLines(sql_lines))
     ELSE Strip(response)

(***************************************************************************)
(* is_sql_valid applied to bounded inputs                                  *)
(***************************************************************************)
\* Upper bound on the number of fragments joined into one input statement.
MaxParts == 3

\* src/backend/app/example_usage2.py lines 120-133 and the statements the
\* validation rules name
ExampleStatements == {
  <<"S", "E", "L", "E", "C", "T", " ", "*", " ", "F", "R", "O", "M", " ", "d", "i", "s", "c", "i", "p", "l", "i", "n", "e", "_", "d", "a", "t", "a", " ", "L", "I", "M", "I", "T", " ", "1", "0">>,
  <<"S", "E", "L", "E", "C", "T", " ", "C", "O", "U", "N", "T", "(", "*", ")", " ", "F", "R", "O", "M", " ", "d", "i", "s", "c", "i", "p", "l", "i", "n", "e", "_", "d", "a", "t", "a">>,
  <<"W", "I", "T", "H", " ", "c", "t", "e", " ", "A", "S", " ", "(", "S", "E", "L", "E", "C", "T", " ", "*", " ", "F", "R", "O", "M", " ", "d", "i", "s", "c", "i", "p", "l", "i", "n", "e", "_", "d", "a", "t", "a", ")", " ", "S", "E", "L", "E", "C", "T", " ", "*", " ", "F", "R", "O", "M", " ", "c", "t", "e">>,
  <<"S", "E", "L", "E", "C", "T", " ", "*", " ", "F", "R", "O", "M", " ", "d", "i", "s", "c", "i", "p", "l", "i", "n", "e", "_", "d", "a", "t", "a", " ", "W", "H", "E", "R", "E">>,
  <<"S", "E", "L", "E", "C", "T", " ", "*", " ", "F", "R", "O", "M", " ", "d", "i", "s", "c", "i", "p", "l", "i", "n", "e", "_", "d", "a", "t", "a", " ", "W", "H", "E", "R", "E", " ", "(", "i", "d", " ", "=", " ", "1">>,
  <<"S", "E", "L", "E", "C", "T", " ", "T", "O", "P", " ", "1", "0", " ", "*", " ", "F", "R", "O", "M", " ", "d", "i", "s", "c", "i", "p", "l", "i", "n", "e", "_", "d", "a", "t", "a">>,
  <<"S", "E", "L", "E", "C", "T", " ", "*", " ", "F", "R", "O", "M", " ", "d", "i", "s", "c", "i", "p", "l", "i", "n", "e", "_", "d", "a", "t", "a", " ", "L", "I", "M", "I", "T", " ", "1", "0", " ", "O", "F", "F", "S", "E", "T", " ", "5">>,
  <<"S", "E", "L", "E", "C", "T", " ", "[", "c", "o", "l", "u", "m", "n", "]", " ", "F", "R", "O", "M", " ", "d", "i", "s", "c", "i", "p", "l", "i", "n", "e", "_", "d", "a", "t", "a">>,
  <<"S", "E", "L", "E", "C", "T", " ", "*", " ", "F", "R", "O", "M", " ", "t", " ", "L", "I", "M", "I", "T", " ", "1", "0">>,
  <<"S", "E", "L", "E", "C", "T", " ", "T", "O", "P", " ", "1", "0", " ", "*", " ", "F", "R", "O", "M", " ", "t">>,
  <<"S", "E", "L", "E", "C", "T", " ", "*", " ", "F", "R", "O", "M", " ", "t", " ", "W", "H", "E", "R", "E", " ", "i", "d", " ", "=", " ", "$", "1">>}

Fragments == {
  <<"s", "e", "l", "e", "c", "t">>,
  <<" ">>,
  <<"(">>,
  <<")">>,
  <<"'">>,
  <<"\\">>,
  <<"\"">>,
  <<"t", "o", "p">>,
  <<"1">>,
  <<"[">>,
  <<"x">>,
  <<"]">>,
  <<"$">>,
  <<"l", "i", "m", "i", "t">>,
  <<"o", "f", "f", "s", "e", "t">>}

RECURSIVE Join(_)
Join(parts) == IF parts = <<>> THEN <<>> ELSE Head(parts) \o Join(Tail(parts))

FragmentTexts == UNION {{Join(p) : p \in [1..n -> Fragments]} : n \in 0..MaxParts}

NoVal == [sql |-> <<>>, pc |-> "off", ok |-> FALSE]
NoGen == [pc |-> "off"]
NoRetry == [pc |-> "off"]
NoRel == [pc |-> "off"]

CacheOff ==
  /\ cache = EmptyCache
  /\ lock = NoTask
  /\ task = [t \in {} |-> IdleTask]
  /\ shadow = [i \in Ids |-> EmptyEntry]
  /\ calls = 0

InitValid ==
  /\ CacheOff /\ MoreOff
  /\ \E s \in ExampleStatements \cup FragmentTexts :
       val = [sql |-> s, pc |-> "called", ok |-> FALSE]
  /\ gen = NoGen /\ retry = NoRetry /\ rel = NoRel

\* vn.is_sql_valid(sql) runs and returns
Validate ==
  /\ val.pc = "called"
  /\ val' = [val EXCEPT !.pc = "returned", !.ok = is_sql_valid(val.sql)]
  /\ UNCHANGED <<cacheVars, gen, retry, rel, moreVars>>

NextValid == Validate

SpecValid == InitValid /\ [][NextValid]_vars

(***************************************************************************)
(* ChromaDB_VectorStore.get_exact_question_sql:                            *)
(* src/backend/app/vanna/chromadb/chromadb_vector.py lines 257-273         *)
(***************************************************************************)
\* a document of the sql collection, as add_question_sql stores it
Doc(q, s) == [question |-> q, sql |-> s]

NotFound == [found |-> FALSE, sql |-> <<>>]

SameQuestionVerbatim(a, b) == a = b

\* line 268: doc question .strip().lower() == question.strip().lower()
SameQuestion(a, b) == LowerSeq(Strip(a)) = LowerSeq(Strip(b))

\* lines 264-273: the first matching document's sql, None otherwise
get_exact_question_sql(docs, question) ==
  LET hits == {i \in 1..Len(docs) : SameQuestion(docs[i].question, question)}
  IN  IF hits = {} THEN NotFound
      ELSE [found |-> TRUE,
            sql |-> docs[CHOOSE i \in hits : \A j \in hits : i <= j].sql]

(***************************************************************************)
(* VannaBase.generate_sql (the base method MyVanna.generate_sql calls):    *)
(* exact-match lookup first, then the language model and extract_sql       *)
(***************************************************************************)
VannaBaseUsesExact(docs, question) == get_exact_question_sql(docs, question).found

VannaBaseGenerateSql(docs, question, llm_response) ==
  IF VannaBaseUsesExact(docs, question)
  THEN get_exact_question_sql(docs, question).sql
  ELSE extract_sql(llm_response)

(***************************************************************************)
(* MyVanna.generate_sql: src/backend/app/vana_agent.py lines 168-213       *)
(***************************************************************************)
\* line 172
max_attempts == 3

\* lines 197-207: the text appended to the question after an invalid attempt
EnhancedSuffix ==
  <<"\n", "\n", "P", "r", "e", "v", "i", "o", "u", "s", " ", "a", "t", "t",
    "e", "m", "p", "t", " ", "g", "e", "n", "e", "r", "a", "t", "e", "d",
    " ", "i", "n", "v", "a", "l", "i", "d", " ", "S", "Q", "L", ".", " ",
    "P", "l", "e", "a", "s", "e", " ", "e", "n", "s", "u", "r", "e", " ",
    "t", "h", "e", " ", "S", "Q", "L", " ", "i", "s", ":", "\n", "1", ".",
    " ", "V", "a", "l", "i", "d", " ", "M", "y", "S", "Q", "L", " ", "8",
    ".", "0", " ", "s", "y", "n", "t", "a", "x", "\n", "2", ".", " ", "U",
    "s", "e", "s", " ", "p", "r", "o", "p", "e", "r", " ", "M", "y", "S",
    "Q", "L", " ", "f", "u", "n", "c", "t", "i", "o", "n", "s", " ", "a",
    "n", "d", " ", "k", "e", "y", "w", "o", "r", "d", "s", "\n", "3", ".",
    " ", "H", "a", "s", " ", "b", "a", "l", "a", "n", "c", "e", "d", " ",
    "p", "a", "r", "e", "n", "t", "h", "e", "s", "e", "s", " ", "a", "n",
    "d", " ", "q", "u", "o", "t", "e", "s", "\n", "4", ".", " ", "F", "o",
    "l", "l", "o", "w", "s", " ", "M", "y", "S", "Q", "L", " ", "n", "a",
    "m", "i", "n", "g", " ", "c", "o", "n", "v", "e", "n", "t", "i", "o",
    "n", "s", "\n", "5", ".", " ", "I", "s", " ", "e", "x", "e", "c", "u",
    "t", "a", "b", "l", "e", " ", "w", "i", "t", "h", "o", "u", "t", " ",
    "s", "y", "n", "t", "a", "x", " ", "e", "r", "r", "o", "r", "s", "\n",
    "\n", "G", "e", "n", "e", "r", "a", "t", "e", " ", "a", " ", "c", "o",
    "r", "r", "e", "c", "t", "e", "d", " ", "M", "y", "S", "Q", "L", " ",
    "8", ".", "0", " ", "c", "o", "m", "p", "a", "t", "i", "b", "l", "e",
    " ", "S", "Q", "L", " ", "q", "u", "e", "r", "y", ".", "\n">>

\* line 196: f"\n{question}\n\nPrevious attempt ..."
EnhancedQuestion(question) == <<"\n">> \o question \o EnhancedSuffix

\* lines 182 and 185: sql.replace("\\_", "_").strip(), then the extraction
CleanSql(sql) == ExtractSqlFromResponse(Strip(ReplaceEscapedUnderscore(sql)))

StoredQuestions == {
    <<"F", "i", "n", "d", " ", "t", "o", "p", " ", "c", "u", "s", "t", "o",
      "m", "e", "r", "s">>,
    <<"C", "o", "u", "n", "t", " ", "t">>
  }

StoredSqls == {
    <<"S", "E", "L", "E", "C", "T", " ", "n", "a", "m", "e", " ", "F", "R",
      "O", "M", " ", "s", "a", "l", "e", "s", " ", "L", "I", "M", "I", "T",
      " ", "5", ";">>,
    <<"S", "E", "L", "E", "C", "T", " ", "n", "a", "m", "e", "\n", " ",
      " ", "F", "R", "O", "M", " ", "c", "u", "s", "t", "o", "m", "e", "r",
      "s">>,
    <<"S", "E", "L", "E", "C", "T", " ", "T", "O", "P", " ", "5", " ", "*",
      " ", "F", "R", "O", "M", " ", "c", "u", "s", "t", "o", "m", "e", "r",
      "s">>
  }

AskedQuestions == {
    <<"f", "i", "n", "d", " ", "t", "o", "p", " ", "c", "u", "s", "t", "o",
      "m", "e", "r", "s", " ">>,
    <<"F", "i", "n", "d", " ", "t", "o", "p", " ", "c", "u", "s", "t", "o",
      "m", "e", "r", "s">>,
    <<"C", "o", "u", "n", "t", " ", "t">>,
    <<"L", "i", "s", "t", " ", "x">>
  }

LlmResponses == {
    <<"bq", "bq", "bq", "s", "q", "l", "\n", "S", "E", "L", "E", "C", "T",
      " ", "C", "O", "U", "N", "T", "(", "*", ")", " ", "F", "R", "O", "M",
      " ", "t", "\n", "bq", "bq", "bq">>,
    <<"S", "E", "L", "E", "C", "T", " ", "T", "O", "P", " ", "1", "0", " ",
      "*", " ", "F", "R", "O", "M", " ", "t">>,
    <<"I", " ", "d", "o", " ", "n", "o", "t", " ", "k", "n", "o", "w">>,
    <<"S", "E", "L", "E", "C", "T", " ", "a", "\\", "_", "b", " ", "F",
      "R", "O", "M", " ", "t", ";">>,
    <<"H", "e", "r", "e", ":", "\n", "S", "E", "L", "E", "C", "T", " ",
      "1", " ", "F", "R", "O", "M", " ", "t", ";", " ", "o", "k">>
  }

MaxDocs == 2

Docs == {Doc(q, s) : q \in StoredQuestions, s \in StoredSqls}

Stores == UNION {[1..n -> Docs] : n \in 0..MaxDocs}

\* vn.generate_sql(question) is entered: attempt = 0, kwargs empty
InitGen ==
  /\ CacheOff /\ MoreOff
  /\ val = NoVal /\ retry = NoRetry /\ rel = NoRel
  /\ \E q \in AskedQuestions, d \in Stores :
       gen = [pc |-> "loop", asked |-> q, question |-> q, docs |-> d,
              attempt |-> 0, kwq |-> FALSE, exact |-> FALSE,
              sql |-> <<>>, ret |-> <<>>, llm |-> 0, err |-> "none"]

AfterAttemptRaises(g, sql) ==
  IF is_sql_valid(sql)
  THEN [g EXCEPT !.pc = "returned", !.sql = sql, !.ret = sql]
  ELSE [g EXCEPT !.pc = "raised", !.sql = sql, !.err = "SynthesisExhausted"]

\* lines 188-213 after one attempt produced sql: return it when valid,
\* otherwise enhance the question (line 208 also stores it in kwargs) and
\* loop, or return the last sql when the attempts are used up
AfterAttempt(g, sql) ==
  IF is_sql_valid(sql)
  THEN [g EXCEPT !.pc = "returned", !.sql = sql, !.ret = sql]
  ELSE IF g.attempt < max_attempts
       THEN [g EXCEPT !.sql = sql, !.kwq = TRUE,
                      !.question = EnhancedQuestion(g.question)]
       ELSE [g EXCEPT !.pc = "returned", !.sql = sql, !.ret = sql]

\* line 179 with 'question' in kwargs: the call passes question both by
\* position and by keyword, and Python raises TypeError
GenTypeError ==
  /\ gen.pc = "loop" /\ gen.attempt < max_attempts /\ gen.kwq
  /\ gen' = [gen EXCEPT !.attempt = @ + 1, !.pc = "raised", !.err = "TypeError"]
  /\ UNCHANGED <<cacheVars, val, retry, rel, moreVars>>

\* lines 176-208, the base method answers from the stored pair
GenExactHit ==
  /\ gen.pc = "loop" /\ gen.attempt < max_attempts /\ ~gen.kwq
  /\ VannaBaseUsesExact(gen.docs, gen.question)
  /\ gen' = AfterAttempt([gen EXCEPT !.attempt = @ + 1, !.exact = TRUE],
                         CleanSql(VannaBaseGenerateSql(gen.docs, gen.question, <<>>)))
  /\ UNCHANGED <<cacheVars, val, retry, rel, moreVars>>

\* lines 176-208, the base method asks the language model
GenLLM ==
  /\ gen.pc = "loop" /\ gen.attempt < max_attempts /\ ~gen.kwq
  /\ ~VannaBaseUsesExact(gen.docs, gen.question)
  /\ \E r \in LlmResponses :
       gen' = AfterAttempt([gen EXCEPT !.attempt = @ + 1, !.llm = @ + 1],
                           CleanSql(VannaBaseGenerateSql(gen.docs, gen.question, r)))
  /\ UNCHANGED <<cacheVars, val, retry, rel, moreVars>>

GenLLMFailsRetried ==
  /\ gen.pc = "loop" /\ gen.attempt < max_attempts /\ ~gen.kwq
  /\ ~VannaBaseUsesExact(gen.docs, gen.question)
  /\ gen' = [gen EXCEPT !.attempt = @ + 1, !.llm = @ + 1, !.err = "SynthesisError"]
  /\ UNCHANGED <<cacheVars, val, retry, rel, moreVars>>

\* ollama.py lines 105-110: the chat call fails and the exception propagates
GenLLMFails ==
  /\ gen.pc = "loop" /\ gen.attempt < max_attempts /\ ~gen.kwq
  /\ ~VannaBaseUsesExact(gen.docs, gen.question)
  /\ gen' = [gen EXCEPT !.attempt = @ + 1, !.llm = @ + 1,
                        !.pc = "raised", !.err = "SynthesisError"]
  /\ UNCHANGED <<cacheVars, val, retry, rel, moreVars>>

NextGen == GenTypeError \/ GenExactHit \/ GenLLM \/ GenLLMFails

SpecGen == InitGen /\ [][NextGen]_vars

(***************************************************************************)
(* run_sql_with_retry(sql, max_retries, original_question), called by the  *)
(* run_sql handler at src/backend/app/vanna/fastapi/fastapi_api.py line    *)
(* 263: execute; on failure append a correction record and, while          *)
(* attempt < max_retries, try the validated rewrite of the language model  *)
(***************************************************************************)
\* fastapi_api.py line 263: self.vn.run_sql_with_retry, sql, 2, question
RunSqlMaxRetries == 2

MaxRetries == 2

NoResult == "None"

InitialStatements == {
    <<"S", "E", "L", "E", "C", "T", " ", "n", "a", "m", " ", "F", "R", "O",
      "M", " ", "t">>,
    <<"S", "E", "L", "E", "C", "T", " ", "*", " ", "F", "R", "O", "M", " ",
      "s">>
  }

Rewrites == {
    <<"S", "E", "L", "E", "C", "T", " ", "n", "a", "m", "e", " ", "F", "R",
      "O", "M", " ", "t">>,
    <<"S", "E", "L", "E", "C", "T", " ", "T", "O", "P", " ", "1", " ", "*",
      " ", "F", "R", "O", "M", " ", "t">>
  }

DatabaseErrors == {"unknown column", "no such table"}

CorrectionRecord(attempt, sql, error) ==
  [attempt |-> attempt, sql |-> sql, database_error |-> error]

\* one execution as the database saw it
Execution(sql, ok) == [sql |-> sql, ok |-> ok]

\* a further execution follows a failure while attempt < max_retries
CanRetryOffByOne(attempt, maxRetries) == attempt + 1 < maxRetries

CanRetry(attempt, maxRetries) == attempt < maxRetries

\* the failure is recorded before anything else happens
RecordFailureReplaces(history, attempt, sql, error) ==
  <<CorrectionRecord(attempt + 1, sql, error)>>

RecordFailure(history, attempt, sql, error) ==
  Append(history, CorrectionRecord(attempt + 1, sql, error))

\* the rewritten statement is tried only when it passes is_sql_valid
NextStatement(sql, rewrite) == IF is_sql_valid(rewrite) THEN rewrite ELSE sql

\* the statement reported with the outcome
FinalSqlInitial(first, current) == first

FinalSql(first, current) == current

InitRetry ==
  /\ CacheOff /\ MoreOff
  /\ val = NoVal /\ gen = NoGen /\ rel = NoRel
  /\ \E s \in InitialStatements, m \in (0..MaxRetries) \cup {RunSqlMaxRetries} :
       retry = [pc |-> "execute", first |-> s, sql |-> s, max_retries |-> m,
                attempt |-> 0, history |-> <<>>, executions |-> <<>>,
                result |-> NoResult, final_sql |-> <<>>]

\* the statement runs and the database returns rows
RetryExecuteSucceeds ==
  /\ retry.pc = "execute"
  /\ retry' = [retry EXCEPT
       !.pc = "returned", !.result = "rows",
       !.final_sql = FinalSql(retry.first, retry.sql),
       !.executions = Append(@, Execution(retry.sql, TRUE))]
  /\ UNCHANGED <<cacheVars, val, gen, rel, moreVars>>

\* the statement fails with retries left: record it, ask for a rewrite
RetryExecuteFailsRewrite ==
  /\ retry.pc = "execute"
  /\ CanRetry(retry.attempt, retry.max_retries)
  /\ \E e \in DatabaseErrors, r \in Rewrites :
       retry' = [retry EXCEPT
         !.history = RecordFailure(@, retry.attempt, retry.sql, e),
         !.executions = Append(@, Execution(retry.sql, FALSE)),
         !.sql = NextStatement(retry.sql, r),
         !.attempt = @ + 1]
  /\ UNCHANGED <<cacheVars, val, gen, rel, moreVars>>

\* the statement fails and the attempts are exhausted
RetryExecuteFailsExhausted ==
  /\ retry.pc = "execute"
  /\ ~CanRetry(retry.attempt, retry.max_retries)
  /\ \E e \in DatabaseErrors :
       retry' = [retry EXCEPT
         !.pc = "returned", !.result = NoResult,
         !.history = RecordFailure(@, retry.attempt, retry.sql, e),
         !.executions = Append(@, Execution(retry.sql, FALSE)),
         !.final_sql = FinalSql(retry.first, retry.sql)]
  /\ UNCHANGED <<cacheVars, val, gen, rel, moreVars>>

NextRetry ==
  RetryExecuteSucceeds \/ RetryExecuteFailsRewrite \/ RetryExecuteFailsExhausted

SpecRetry == InitRetry /\ [][NextRetry]_vars

(***************************************************************************)
(* ChromaDB_VectorStore._extract_documents and the getters that call it:   *)
(* src/backend/app/vanna/chromadb/chromadb_vector.py lines 209-297         *)
(* A distance is an integer number of thousandths; a document is named by  *)
(* its position in the query result.                                       *)
(***************************************************************************)
\* line 244: if dist <= 0.9
RelevanceCutoff == 900

\* line 251: filtered_pairs[:5]
MaxFiltered == 5

MaxNeighbours == 7

SampleDistances == {350, 900, 901}

\* src/backend/app/test2.py lines 60-71
Test2Distances == <<824, 886, 1072, 350, 920, 410, 870, 760, 945, 510>>

SortedExampleDistances == <<350, 410, 510, 760, 820, 880, 920, 940, 950, 1070>>

Pair(doc, dist) == [doc |-> doc, dist |-> dist]

\* line 243: zip(doc_list, dist_list)
Zip(distances) == [i \in 1..Len(distances) |-> Pair(i, distances[i])]

WithinCutoffStrict(pair) == pair.dist < RelevanceCutoff

\* line 244
WithinCutoff(pair) == pair.dist <= RelevanceCutoff

\* lines 241-245
FilteredPairs(pairs) == SelectSeq(pairs, WithinCutoff)

\* line 248: list.sort(key=distance) is stable
Rank(pairs, i) ==
  1 + Cardinality({j \in 1..Len(pairs) :
        \/ pairs[j].dist < pairs[i].dist
        \/ pairs[j].dist = pairs[i].dist /\ j < i})

SortByDistance(pairs) ==
  [r \in 1..Len(pairs) |-> pairs[CHOOSE i \in 1..Len(pairs) : Rank(pairs, i) = r]]

\* line 251
KeepNearest(pairs) == SubSeq(pairs, 1, IF Len(pairs) < MaxFiltered THEN Len(pairs) ELSE MaxFiltered)

DocsOf(pairs) == [i \in 1..Len(pairs) |-> pairs[i].doc]

\* lines 239-255; the distance lists Chroma returns are never empty lists
\* of lists, so mcj = "yes" alone selects the filter
extract_documents(distances, mcj) ==
  IF mcj = "yes"
  THEN DocsOf(KeepNearest(SortByDistance(FilteredPairs(Zip(distances)))))
  ELSE DocsOf(Zip(distances))

QueryResults ==
  UNION {[1..n -> SampleDistances] : n \in 0..MaxNeighbours}
    \cup {Test2Distances, SortedExampleDistances}

InitRel ==
  /\ CacheOff /\ MoreOff
  /\ val = NoVal /\ gen = NoGen /\ retry = NoRetry
  /\ \E d \in QueryResults :
       rel = [pc |-> "query", distances |-> d, getter |-> "none", documents |-> <<>>]

\* lines 275-281: get_similar_question_sql passes "yes"
GetSimilarQuestionSql ==
  /\ rel.pc = "query"
  /\ rel' = [rel EXCEPT !.pc = "returned", !.getter = "sql",
                        !.documents = extract_documents(rel.distances, "yes")]
  /\ UNCHANGED <<cacheVars, val, gen, retry, moreVars>>

\* lines 283-297: get_related_ddl and get_related_documentation keep the
\* default mcj
GetRelated ==
  /\ rel.pc = "query"
  /\ \E g \in {"ddl", "documentation"} :
       rel' = [rel EXCEPT !.pc = "returned", !.getter = g,
                          !.documents = extract_documents(rel.distances, "qsql")]
  /\ UNCHANGED <<cacheVars, val, gen, retry, moreVars>>

NextRel == GetSimilarQuestionSql \/ GetRelated

SpecRel == InitRel /\ [][NextRel]_vars

(***************************************************************************)
(* ChromaDB_VectorStore training data:                                     *)
(* src/backend/app/vanna/chromadb/chromadb_vector.py lines 65-98, 165-207  *)
(* A collection is the sequence of its entries in insertion order.         *)
(***************************************************************************)
\* deterministic_uuid(content): a hash of the content, the same for the
\* same content and different for different contents
deterministic_uuid(content) == <<"uuid", content>>

\* lines 73, 83, 92: deterministic_uuid(...) + "-sql" / "-ddl" / "-doc"
TrainingId(content, suffix) == [uuid |-> deterministic_uuid(content), suffix |-> suffix]

Entry(id, document) == [id |-> id, document |-> document]

HasId(collection, id) == \E i \in 1..Len(collection) : collection[i].id = id

CollectionAddAlways(collection, id, document) ==
  Append(collection, Entry(id, document))

\* lines 74-78, 84-88, 93-97: Collection.add leaves an id that is already
\* in the collection as it is
CollectionAdd(collection, id, document) ==
  IF HasId(collection, id) THEN collection
  ELSE Append(collection, Entry(id, document))

\* an entry survives delete(ids=id) when its id differs
EntryKept(collection, i, id) == collection[i].id # id

\* lines 167, 170, 173: Collection.delete(ids=id)
CollectionDelete(collection, id) ==
  LET kept == {i \in 1..Len(collection) : EntryKept(collection, i, id)}
      Nth(r) == CHOOSE i \in kept : Cardinality({j \in kept : j <= i}) = r
  IN  [r \in 1..Cardinality(kept) |-> collection[Nth(r)]]

\* line 263: self.sql_collection.get()["documents"], json.loads of each;
\* a stored document is the pair add_question_sql serialised
Documents(collection) == [i \in 1..Len(collection) |-> collection[i].document]

\* lines 166-176: the suffix of the id selects the collection
CollectionOfSuffix(suffix) ==
  CASE suffix = "-sql" -> "sql"
    [] suffix = "-ddl" -> "ddl"
    [] suffix = "-doc" -> "documentation"
    [] OTHER -> "none"

StoreDocs == {
    Doc(<<"T", "o", "p", " ", "5">>, <<"S", "E", "L", "E", "C", "T", " ", "1">>),
    Doc(<<" ", "t", "o", "p", " ", "5">>, <<"S", "E", "L", "E", "C", "T", " ", "2">>),
    Doc(<<"C", "o", "u", "n", "t">>, <<"S", "E", "L", "E", "C", "T", " ", "1">>)
  }

StoreDdls == {
    <<"C", "R", "E", "A", "T", "E", " ", "T", "A", "B", "L", "E", " ", "t">>,
    <<"C", "R", "E", "A", "T", "E", " ", "T", "A", "B", "L", "E", " ", "s">>
  }

StoreDocumentation == {
    <<"t", " ", "h", "o", "l", "d", "s", " ", "s", "a", "l", "e", "s">>
  }

LookupQuestions == {
    <<"T", "O", "P", " ", "5", " ">>,
    <<"T", "o", "p", " ", "5">>,
    <<"c", "o", "u", "n", "t">>,
    <<"O", "t", "h", "e", "r">>
  }

CollectionNames == {"sql", "ddl", "documentation"}

TrainingIds ==
  {TrainingId(d, "-sql") : d \in StoreDocs}
    \cup {TrainingId(d, "-ddl") : d \in StoreDdls}
    \cup {TrainingId(d, "-doc") : d \in StoreDocumentation}
    \cup {TrainingId(d, "") : d \in StoreDdls}

NoCall == [op |-> "none"]

\* lines 43-57 on an empty database, or after any earlier training
InitStore ==
  /\ CacheOff
  /\ val = NoVal /\ gen = NoGen /\ retry = NoRetry /\ rel = NoRel
  /\ prompt = NoPrompt /\ http = NoHttp /\ LastOff
  /\ store = [pc |-> "on", sql |-> <<>>, ddl |-> <<>>, documentation |-> <<>>,
              issued |-> {}, last |-> NoCall]

\* the record of a finished add_* call: what was inserted, the id it
\* returned, whether the content was stored before and how many entries
\* the collection had
AddCall(name, content, id, collection) ==
  [op |-> "add", collection |-> name, content |-> content, id |-> id,
   present |-> \E i \in 1..Len(collection) : collection[i].document = content,
   before |-> Len(collection)]

\* history: every id an add_* call has returned, with what it was for
Issued(name, content, id) == [collection |-> name, content |-> content, id |-> id]

\* lines 65-80
add_question_sql ==
  /\ store.pc = "on"
  /\ \E d \in StoreDocs :
       LET id == TrainingId(d, "-sql") IN
       store' = [store EXCEPT !.sql = CollectionAdd(@, id, d),
                              !.issued = @ \cup {Issued("sql", d, id)},
                              !.last = AddCall("sql", d, id, store.sql)]
  /\ UNCHANGED <<cacheVars, val, gen, retry, rel, prompt, http, lastVars>>

\* lines 82-89
add_ddl ==
  /\ store.pc = "on"
  /\ \E d \in StoreDdls :
       LET id == TrainingId(d, "-ddl") IN
       store' = [store EXCEPT !.ddl = CollectionAdd(@, id, d),
                              !.issued = @ \cup {Issued("ddl", d, id)},
                              !.last = AddCall("ddl", d, id, store.ddl)]
  /\ UNCHANGED <<cacheVars, val, gen, retry, rel, prompt, http, lastVars>>

\* lines 91-98
add_documentation ==
  /\ store.pc = "on"
  /\ \E d \in StoreDocumentation :
       LET id == TrainingId(d, "-doc") IN
       store' = [store EXCEPT !.documentation = CollectionAdd(@, id, d),
                              !.issued = @ \cup {Issued("documentation", d, id)},
                              !.last = AddCall("documentation", d, id, store.documentation)]
  /\ UNCHANGED <<cacheVars, val, gen, retry, rel, prompt, http, lastVars>>

\* lines 165-176
remove_training_data ==
  /\ store.pc = "on"
  /\ \E id \in TrainingIds :
       LET name == CollectionOfSuffix(id.suffix) IN
       store' = [store EXCEPT
         !.sql = IF name = "sql" THEN CollectionDelete(@, id) ELSE @,
         !.ddl = IF name = "ddl" THEN CollectionDelete(@, id) ELSE @,
         !.documentation = IF name = "documentation" THEN CollectionDelete(@, id) ELSE @,
         !.last = [op |-> "remove", id |-> id, result |-> name # "none"]]
  /\ UNCHANGED <<cacheVars, val, gen, retry, rel, prompt, http, lastVars>>

\* lines 178-207
remove_collection ==
  /\ store.pc = "on"
  /\ \E name \in CollectionNames \cup {"other"} :
       store' = [store EXCEPT
         !.sql = IF name = "sql" THEN <<>> ELSE @,
         !.ddl = IF name = "ddl" THEN <<>> ELSE @,
         !.documentation = IF name = "documentation" THEN <<>> ELSE @,
         !.last = [op |-> "reset", collection |-> name,
                   result |-> name \in CollectionNames]]
  /\ UNCHANGED <<cacheVars, val, gen, retry, rel, prompt, http, lastVars>>

\* lines 257-273
GetExactQuestionSql ==
  /\ store.pc = "on"
  /\ \E q \in LookupQuestions :
       store' = [store EXCEPT
         !.last = [op |-> "get_exact", question |-> q,
                   result |-> get_exact_question_sql(Documents(store.sql), q)]]
  /\ UNCHANGED <<cacheVars, val, gen, retry, rel, prompt, http, lastVars>>

NextStore ==
  \/ add_question_sql \/ add_ddl \/ add_documentation
  \/ remove_training_data \/ remove_collection \/ GetExactQuestionSql

SpecStore == InitStore /\ [][NextStore]_vars

(***************************************************************************)
(* A question answered end to end: MyVanna.generate_sql                    *)
(* (src/backend/app/vana_agent.py lines 168-213) on a fenced answer of the *)
(* language model, then run_sql_with_retry on the statement it returned    *)
(* (src/backend/app/vanna/fastapi/fastapi_api.py lines 216-221, 262-264)   *)
(***************************************************************************)
\* statements that pass is_sql_valid as they are
FencedStatements == {
    <<"S", "E", "L", "E", "C", "T", " ", "C", "O", "U", "N", "T", "(", "*",
      ")", " ", "F", "R", "O", "M", " ", "t">>,
    <<"S", "E", "L", "E", "C", "T", " ", "a", "\n", "F", "R", "O", "M",
      " ", "t">>,
    <<"S", "E", "L", "E", "C", "T", " ", "a", " ", "F", "R", "O", "M", " ",
      "t", " ", "W", "H", "E", "R", "E", " ", "b", " ", "=", " ", "'", "x",
      "'">>,
    <<"S", "E", "L", "E", "C", "T", " ", "a", " ", "F", "R", "O", "M", " ",
      "t", " ", "W", "H", "E", "R", "E", " ", "b", " ", "=", " ", "'", ";",
      "'">>
  }

\* the statement on its own lines inside a fence tagged sql
FencedAnswer(statement) ==
  Fence \o <<"s", "q", "l", "\n">> \o statement \o <<"\n">> \o Fence

InitEnd ==
  /\ CacheOff /\ MoreOff
  /\ val = NoVal /\ retry = NoRetry /\ rel = NoRel
  /\ \E q \in AskedQuestions, d \in Stores :
       /\ ~VannaBaseUsesExact(d, q)
       /\ gen = [pc |-> "loop", asked |-> q, question |-> q, docs |-> d,
                 attempt |-> 0, kwq |-> FALSE, exact |-> FALSE,
                 sql |-> <<>>, ret |-> <<>>, llm |-> 0, err |-> "none",
                 inside |-> <<>>]

\* vana_agent.py lines 176-208: the first attempt, answered with a fence
EndFirstAttempt ==
  /\ gen.pc = "loop" /\ gen.attempt = 0
  /\ \E s \in FencedStatements :
       gen' = AfterAttempt(
                [gen EXCEPT !.attempt = @ + 1, !.llm = @ + 1, !.inside = s],
                CleanSql(VannaBaseGenerateSql(gen.docs, gen.question, FencedAnswer(s))))
  /\ UNCHANGED <<cacheVars, val, retry, rel, moreVars>>

\* fastapi_api.py lines 262-264: the returned statement is executed
EndRunSql ==
  /\ gen.pc = "returned" /\ retry = NoRetry
  /\ retry' = [pc |-> "execute", first |-> gen.ret, sql |-> gen.ret,
               max_retries |-> RunSqlMaxRetries, attempt |-> 0,
               history |-> <<>>, executions |-> <<>>,
               result |-> NoResult, final_sql |-> <<>>]
  /\ UNCHANGED <<cacheVars, val, gen, rel, moreVars>>

NextEnd ==
  \/ EndFirstAttempt \/ GenTypeError \/ EndRunSql
  \/ RetryExecuteSucceeds \/ RetryExecuteFailsRewrite \/ RetryExecuteFailsExhausted

SpecEnd == InitEnd /\ [][NextEnd]_vars

(***************************************************************************)
(* Lookups that miss: AsyncMemoryCache.get                                 *)
(* (src/backend/app/vanna/fastapi/cache.py lines 70-74) by one client and  *)
(* get_exact_question_sql (chromadb_vector.py lines 257-273) on a trained  *)
(* sql collection                                                          *)
(***************************************************************************)
RECURSIVE Trained(_)
\* the sql collection after add_question_sql of the given pairs in order
Trained(docs) ==
  IF docs = <<>> THEN <<>>
  ELSE CollectionAdd(Trained(SubSeq(docs, 1, Len(docs) - 1)),
                     TrainingId(docs[Len(docs)], "-sql"), docs[Len(docs)])

\* the empty collection and the collections holding one pair
TrainedCollections == {Trained(<<>>)} \cup {Trained(<<d>>) : d \in StoreDocs}

InitMiss ==
  /\ cache = EmptyCache
  /\ lock = NoTask
  /\ task = [t \in {"c1"} |-> IdleTask]
  /\ shadow = [i \in Ids |-> EmptyEntry]
  /\ calls = 0
  /\ val = NoVal /\ gen = NoGen /\ retry = NoRetry /\ rel = NoRel
  /\ prompt = NoPrompt /\ http = NoHttp /\ LastOff
  /\ \E c \in TrainedCollections :
       store = [pc |-> "on", sql |-> c, ddl |-> <<>>, documentation |-> <<>>,
                issued |-> {}, last |-> NoCall]

\* fastapi_api.py lines 216-224: generate_sql, which makes the lookup, runs
\* before the request's first cache.set
NextMiss == NextCache \/ (calls = 0 /\ GetExactQuestionSql)

SpecMiss == InitMiss /\ [][NextMiss]_vars

(***************************************************************************)
(* MyVanna.get_sql_prompt: src/backend/app/vana_agent.py lines 40-111,     *)
(* with add_ddl_to_prompt as in src/backend/app/play_with_rag.py lines     *)
(* 63-80. A text is represented by its length in characters; the prompt is *)
(* the sequence of the parts appended to it.                               *)
(***************************************************************************)
\* vana_agent.py lines 54-67: the default system prompt has 735 characters
DefaultPreambleLength == 735

\* play_with_rag.py line 70: "\n===Tables \n"
TablesHeaderLength == 12

\* "\n===Additional Context \n\n" and "\n===Question-SQL Pairs\n\n"
ContextHeaderLength == 26

PairsHeaderLength == 25

\* play_with_rag.py line 78: f"{ddl}\n\n"
SeparatorLength == 2

\* vana_agent.py lines 88-97: the response guidelines have 672 characters
GuidelinesLength == 672

Part(kind, item, len) == [kind |-> kind, item |-> item, len |-> len]

RECURSIVE PartsLength(_)
PartsLength(parts) ==
  IF parts = <<>> THEN 0
  ELSE parts[Len(parts)].len + PartsLength(SubSeq(parts, 1, Len(parts) - 1))

\* play_with_rag.py lines 63-64 and 73-77: len(prompt) / 4 + len(ddl) / 4
\* < max_tokens, in true division
Fits(promptLength, fragmentLength, maxTokens) ==
  promptLength + fragmentLength < 4 * maxTokens

RECURSIVE AppendFragments(_, _, _, _, _)
\* play_with_rag.py lines 72-78: fragments from position i on, in order
AppendFragments(parts, kind, fragments, i, maxTokens) ==
  IF i > Len(fragments) THEN parts
  ELSE AppendFragments(
         IF Fits(PartsLength(parts), fragments[i], maxTokens)
         THEN Append(parts, Part(kind, i, fragments[i] + SeparatorLength))
         ELSE parts,
         kind, fragments, i + 1, maxTokens)

\* play_with_rag.py lines 66-80, and the same for documentation and sql
AddToPrompt(parts, kind, headerLength, fragments, maxTokens) ==
  IF Len(fragments) > 0
  THEN AppendFragments(Append(parts, Part("header", kind, headerLength)),
                       kind, fragments, 1, maxTokens)
  ELSE parts

\* vana_agent.py lines 75-76
WithStaticDocumentation(docs, static) ==
  IF static # 0 THEN Append(docs, static) ELSE docs

\* vana_agent.py line 84: the sql of every example
ExampleSqls(examples) == [i \in 1..Len(examples) |-> examples[i].sql]

\* vana_agent.py lines 53-97: the system prompt
SystemPrompt(preamble, ddls, docs, static, examples, maxTokens) ==
  LET p0 == <<Part("preamble", 0, preamble)>>
      p1 == AddToPrompt(p0, "ddl", TablesHeaderLength, ddls, maxTokens)
      p2 == AddToPrompt(p1, "doc", ContextHeaderLength,
                        WithStaticDocumentation(docs, static), maxTokens)
      p3 == AddToPrompt(p2, "sql", PairsHeaderLength, ExampleSqls(examples), maxTokens)
  IN  Append(p3, Part("guidelines", 0, GuidelinesLength))

Message(role, len) == [role |-> role, len |-> len]

RECURSIVE ExampleMessages(_)
\* vana_agent.py lines 103-106
ExampleMessages(examples) ==
  IF examples = <<>> THEN <<>>
  ELSE <<Message("user", Head(examples).question),
         Message("assistant", Head(examples).sql)>> \o ExampleMessages(Tail(examples))

\* variant: the current question is put before the example turns
MessageLogQuestionFirst(system, examples, question) ==
  <<Message("system", PartsLength(system)), Message("user", question)>>
    \o ExampleMessages(examples)

\* vana_agent.py lines 99-111
MessageLog(system, examples, question) ==
  <<Message("system", PartsLength(system))>> \o ExampleMessages(examples)
    \o <<Message("user", question)>>

MaxFragments == 2

FragmentLengths == {80, 400}

Examples == {[question |-> 40, sql |-> 80], [question |-> 40, sql |-> 400]}

PreambleLengths == {DefaultPreambleLength, 100}

MaxTokenSettings == {300, 14000}

StaticDocumentationLengths == {0, 80}

FragmentLists(S) == UNION {[1..n -> S] : n \in 0..MaxFragments}

InitPrompt ==
  /\ CacheOff
  /\ val = NoVal /\ gen = NoGen /\ retry = NoRetry /\ rel = NoRel
  /\ store = NoStore /\ http = NoHttp /\ LastOff
  /\ \E pre \in PreambleLengths, m \in MaxTokenSettings,
        d \in FragmentLists(FragmentLengths), c \in FragmentLists(FragmentLengths),
        e \in FragmentLists(Examples), s \in StaticDocumentationLengths :
       /\ pre < 4 * m
       /\ prompt = [pc |-> "called", preamble |-> pre, max_tokens |-> m,
                    ddl_list |-> d, doc_list |-> c, static_documentation |-> s,
                    question_sql_list |-> e, question |-> 40,
                    system |-> <<>>, message_log |-> <<>>]

GetSqlPrompt ==
  /\ prompt.pc = "called"
  /\ LET system == SystemPrompt(prompt.preamble, prompt.ddl_list, prompt.doc_list,
                                prompt.static_documentation,
                                prompt.question_sql_list, prompt.max_tokens)
     IN prompt' = [prompt EXCEPT
          !.pc = "returned",
          !.doc_list = WithStaticDocumentation(@, prompt.static_documentation),
          !.system = system,
          !.message_log = MessageLog(system, prompt.question_sql_list, prompt.question)]
  /\ UNCHANGED <<cacheVars, val, gen, retry, rel, store, http, lastVars>>

NextPrompt == GetSqlPrompt

SpecPrompt == InitPrompt /\ [][NextPrompt]_vars

(***************************************************************************)
(* The run_sql and get_error_history handlers of VannaFastAPI              *)
(* (src/backend/app/vanna/fastapi/fastapi_api.py lines 238-304 and         *)
(* 733-754) serving one request id.  http.session is the cache entry of    *)
(* that id; every cache.get and cache.set of the handler is one locked     *)
(* operation of AsyncMemoryCache, so a handler step reads or writes the    *)
(* entry atomically.  run_sql_with_retry runs as the retry machine above.  *)
(***************************************************************************)
MaxRequests == 2

NoValue == "None"

\* a field holding a statement or a history: absent, or present with a value
Absent == <<>>

Present(value) == <<value>>

\* the fields of the entry the two handlers touch
Session(sql, question, df, history) ==
  [sql |-> sql, question |-> question, df |-> df, error_history |-> history]

\* the body returned to the client
Response(type, corrected, attempts, history) ==
  [type |-> type, sql_corrected |-> corrected,
   correction_attempts |-> attempts, error_history |-> history]

NoResponse == Response("none", FALSE, 0, Absent)

\* variant: the statement that was read stays in the cache
SuccessSessionKeepsSql(session, df, finalSql, history) ==
  [session EXCEPT
     !.df = df,
     !.error_history = IF history # <<>> THEN Present(history) ELSE @]

\* lines 266-292: rows came back
SuccessSession(session, df, finalSql, history) ==
  [session EXCEPT
     !.df = df, !.sql = Present(finalSql),
     !.error_history = IF history # <<>> THEN Present(history) ELSE @]

SuccessResponse(sql, finalSql, history) ==
  Response("df", Present(finalSql) # sql, Len(history), Absent)

\* lines 293-301: retries exhausted, a sentence asking for clarification
ExhaustedSession(session, history) == session

ExhaustedResponse(history) == Response("text", FALSE, 0, Absent)

\* lines 303-304
ErrorResponse == Response("sql_error", FALSE, 0, Absent)

InitHttp ==
  /\ CacheOff
  /\ val = NoVal /\ gen = NoGen /\ rel = NoRel /\ retry = NoRetry
  /\ store = NoStore /\ prompt = NoPrompt /\ LastOff
  /\ \E s \in {Present(i) : i \in InitialStatements} \cup {Absent},
        set \in BOOLEAN :
       http = [pc |-> "idle", run_sql_is_set |-> set, requests |-> 0,
               session |-> Session(s, "q", NoValue, Absent),
               sql |-> Absent, response |-> NoResponse,
               asked |-> FALSE, history_response |-> <<>>]

\* lines 245-253: no statement stored, or no database connected
HttpRunSqlRejected ==
  /\ http.pc \in {"idle", "responded"} /\ http.requests < MaxRequests
  /\ http.session.sql = Absent \/ ~http.run_sql_is_set
  /\ http' = [http EXCEPT !.pc = "responded", !.requests = @ + 1,
                          !.response = Response("http400", FALSE, 0, Absent),
                          !.asked = FALSE, !.history_response = <<>>]
  /\ UNCHANGED <<cacheVars, val, gen, retry, rel, store, prompt, lastVars>>

\* lines 245-264: the stored statement is handed to run_sql_with_retry
HttpRunSqlStart ==
  /\ http.pc \in {"idle", "responded"} /\ http.requests < MaxRequests
  /\ http.session.sql # Absent /\ http.run_sql_is_set
  /\ http' = [http EXCEPT !.pc = "running", !.requests = @ + 1,
                          !.sql = http.session.sql, !.response = NoResponse,
                          !.asked = FALSE, !.history_response = <<>>]
  /\ retry' = [pc |-> "execute", first |-> http.session.sql[1],
               sql |-> http.session.sql[1], max_retries |-> RunSqlMaxRetries,
               attempt |-> 0, history |-> <<>>, executions |-> <<>>,
               result |-> NoResult, final_sql |-> <<>>]
  /\ UNCHANGED <<cacheVars, val, gen, rel, store, prompt, lastVars>>

\* lines 266-301: the outcome is stored and answered
HttpRunSqlFinish ==
  /\ http.pc = "running" /\ retry.pc = "returned"
  /\ http' = IF retry.result # NoResult
             THEN [http EXCEPT
                     !.pc = "responded",
                     !.session = SuccessSession(@, retry.result,
                                                retry.final_sql, retry.history),
                     !.response = SuccessResponse(http.sql, retry.final_sql,
                                                  retry.history)]
             ELSE [http EXCEPT
                     !.pc = "responded",
                     !.session = ExhaustedSession(@, retry.history),
                     !.response = ExhaustedResponse(retry.history)]
  /\ UNCHANGED <<cacheVars, val, gen, retry, rel, store, prompt, lastVars>>

\* lines 303-304: anything raised inside the try block
HttpRunSqlRaises ==
  /\ http.pc = "running" /\ retry.pc = "execute"
  /\ http' = [http EXCEPT !.pc = "responded", !.response = ErrorResponse]
  /\ retry' = [retry EXCEPT !.pc = "raised"]
  /\ UNCHANGED <<cacheVars, val, gen, rel, store, prompt, lastVars>>

\* lines 733-754
HttpGetErrorHistory ==
  /\ http.pc = "responded" /\ ~http.asked
  /\ http' = [http EXCEPT
       !.asked = TRUE,
       !.history_response = IF http.session.error_history = Absent
                            THEN <<>> ELSE http.session.error_history[1]]
  /\ UNCHANGED <<cacheVars, val, gen, retry, rel, store, prompt, lastVars>>

NextHttp ==
  \/ HttpRunSqlRejected \/ HttpRunSqlStart \/ HttpRunSqlFinish
  \/ HttpRunSqlRaises \/ HttpGetErrorHistory
  \/ RetryExecuteSucceeds \/ RetryExecuteFailsRewrite \/ RetryExecuteFailsExhausted

SpecHttp == InitHttp /\ [][NextHttp]_vars

(***************************************************************************)
(* AsyncMemoryCache.get_all taken one loop iteration at a time             *)
(* (src/backend/app/vanna/fastapi/cache.py lines 76-84) while other        *)
(* coroutines are inside set, get and delete.  The reader and the others   *)
(* start at `async with self._lock` on a cache that earlier sets filled.   *)
(***************************************************************************)
Scanner == "g1"

Others == {"w1", "w2"}

\* field_list arguments: the one of get_question_history and all fields
FieldLists == {{"question", "sql"}, Fields}

\* line 78: result = []
EmptyResult == [i \in {} |-> EmptyEntry]

\* lines 80-83: the item of cache_id is appended to result
WithItem(result, c, id, fl) ==
  [i \in DOMAIN result \cup {id} |->
     IF i = id THEN [f \in fl |-> c[id][f]] ELSE result[i]]

\* a coroutine of this scenario, waiting for the lock
ScanTask(op, id, f, v, fl) ==
  [pc |-> "acquire", op |-> op, id |-> id, field |-> f, value |-> v,
   found |-> FALSE, result |-> None, expect |-> None,
   field_list |-> fl, todo |-> {}, seen |-> {}]

\* caches left behind by earlier set calls
FilledCaches == {
    EmptyCache,
    CacheStore(CacheCreate(EmptyCache, "A"), "A", "sql", "v1"),
    CacheStore(CacheCreate(
        CacheStore(CacheCreate(EmptyCache, "A"), "A", "question", "v2"),
        "B"), "B", "sql", "v1")
  }

\* the calls the other coroutines are making
OtherCalls ==
  {ScanTask("set", i, f, v, {}) : i \in Ids, f \in {"sql", "df"}, v \in Values}
    \cup {ScanTask("get", i, "sql", None, {}) : i \in Ids}
    \cup {ScanTask("delete", i, "sql", None, {}) : i \in Ids}

InitScan ==
  /\ \E W \in SUBSET Others, fl \in FieldLists :
       \E other \in [W -> OtherCalls] :
         task = [t \in W \cup {Scanner} |->
                   IF t = Scanner
                   THEN ScanTask("get_all", "A", "sql", None, fl)
                   ELSE other[t]]
  /\ cache \in FilledCaches
  /\ shadow = [i \in Ids |-> IF i \in DOMAIN cache THEN cache[i] ELSE EmptyEntry]
  /\ calls = Cardinality(DOMAIN task)
  /\ lock = NoTask
  /\ val = NoVal /\ gen = NoGen /\ retry = NoRetry /\ rel = NoRel
  /\ MoreOff

\* lines 78-79: result = [] and the iteration over self.cache starts
ScanBegin(t) ==
  /\ task[t].pc = "scan"
  /\ task' = [task EXCEPT ![t].pc = "item", ![t].result = EmptyResult,
                          ![t].todo = DOMAIN cache, ![t].seen = {cache}]
  /\ UNCHANGED <<cache, lock, shadow, calls, textVars>>

\* lines 79-83: one iteration of `for cache_id in self.cache`
ScanItem(t) ==
  /\ task[t].pc = "item"
  /\ \E id \in task[t].todo :
       task' = [task EXCEPT
         ![t].todo = @ \ {id},
         ![t].seen = @ \cup {cache},
         ![t].result = IF id \in DOMAIN cache
                       THEN WithItem(@, cache, id, task[t].field_list)
                       ELSE @]
  /\ UNCHANGED <<cache, lock, shadow, calls, textVars>>

\* line 84: return result, the lock is released
ScanEnd(t) ==
  /\ task[t].pc = "item"
  /\ task[t].todo = {}
  /\ task' = [task EXCEPT ![t].pc = "done", ![t].seen = @ \cup {cache}]
  /\ lock' = NoTask
  /\ UNCHANGED <<cache, shadow, calls, textVars>>

NextScan ==
  \E t \in DOMAIN task :
    \/ Acquire(t)
    \/ SetTest(t)
    \/ SetCreate(t)
    \/ SetStore(t)
    \/ GetRead(t)
    \/ DeleteRemove(t)
    \/ ScanBegin(t)
    \/ ScanItem(t)
    \/ ScanEnd(t)

SpecScan == InitScan /\ [][NextScan]_vars

(***************************************************************************)
(* Extraction of the statement from a model response, as                   *)
(* MyVanna.generate_sql applies it (vana_agent.py lines 180-185):          *)
(* Ollama.extract_sql inside VannaBase.generate_sql, then the clean-up of  *)
(* _extract_sql_from_response.  Responses are built from the pieces a      *)
(* model answer is made of.                                                *)
(***************************************************************************)
MaxPieces == 3

ResponsePieces == {
    <<"S", "u", "r", "e", ":", " ">>,
    <<"S", "E", "L", "E", "C", "T", " ", "a", " ", "F", "R", "O", "M", " ",
      "t">>,
    <<";">>,
    <<"[">>,
    <<"bq", "bq", "bq", "s", "q", "l", "\n">>,
    <<"bq", "bq", "bq">>,
    <<"\n">>,
    <<"W", "I", "T", "H", " ", "c", " ", "A", "S", " ", "(", "S", "E", "L",
      "E", "C", "T", " ", "1", ")", " ">>,
    <<" ", "t", "h", "a", "n", "k", "s">>
  }

ModelResponses ==
  UNION {{Join(p) : p \in [1..n -> ResponsePieces]} : n \in 0..MaxPieces}

InitExtract ==
  /\ CacheOff
  /\ val = NoVal /\ gen = NoGen /\ retry = NoRetry /\ rel = NoRel
  /\ store = NoStore /\ prompt = NoPrompt /\ http = NoHttp
  /\ stream = NoStream
  /\ \E r \in ModelResponses :
       ext = [pc |-> "called", llm_response |-> r, sql |-> <<>>, clean |-> <<>>]

\* ollama.py lines 55-86, then vana_agent.py lines 182-185
ExtractSql ==
  /\ ext.pc = "called"
  /\ ext' = [ext EXCEPT !.pc = "returned",
                        !.sql = extract_sql(ext.llm_response),
                        !.clean = CleanSql(extract_sql(ext.llm_response))]
  /\ UNCHANGED <<cacheVars, val, gen, retry, rel, store, prompt, http, stream>>

NextExtract == ExtractSql

SpecExtract == InitExtract /\ [][NextExtract]_vars

(***************************************************************************)
(* Ollama._submit_prompt_stream                                            *)
(* (src/backend/app/vanna/ollama/ollama.py lines 122-181): the generator   *)
(* takes the chunks of the chat stream one at a time and yields events.    *)
(* stream.events is the sequence of events yielded so far, each as it was  *)
(* when yielded; stream.chunks is the sequence of chunks received.         *)
(***************************************************************************)
MaxChunks == 3

\* chunk.message.thinking and chunk.message.content; <<>> is the empty text
ThinkingTexts == {<<>>, <<"t">>}

ContentTexts == {<<>>, <<"a">>, <<"b">>}

Chunk(thinking, content) == [thinking |-> thinking, content |-> content]

Event(type, thinking, content, full) ==
  [type |-> type, thinking |-> thinking, content |-> content,
   full_response |-> full]

\* variant: thinking text is passed on after the answer has begun as well
EmitsThinkingAlways(chunk, thinkingComplete) == chunk.thinking # <<>>

\* lines 149-150
EmitsThinking(chunk, thinkingComplete) ==
  chunk.thinking # <<>> /\ ~thinkingComplete

\* lines 156-157
EmitsContent(chunk) == chunk.content # <<>>

\* lines 141-167: the events yielded for one chunk, in order
ChunkEvents(chunk, thinkingComplete) ==
  (IF EmitsThinking(chunk, thinkingComplete)
   THEN <<Event("thinking", chunk.thinking, <<>>, <<>>)>> ELSE <<>>)
  \o (IF EmitsContent(chunk) /\ ~thinkingComplete
      THEN <<Event("thinking_end", chunk.thinking, <<>>, <<>>)>> ELSE <<>>)
  \o (IF EmitsContent(chunk)
      THEN <<Event("content", chunk.thinking, chunk.content, <<>>)>> ELSE <<>>)

InitStream ==
  /\ CacheOff
  /\ val = NoVal /\ gen = NoGen /\ retry = NoRetry /\ rel = NoRel
  /\ store = NoStore /\ prompt = NoPrompt /\ http = NoHttp
  /\ ext = NoExt
  /\ stream = [pc |-> "called", thinking_complete |-> FALSE,
               full_response |-> <<>>, chunks |-> <<>>, events |-> <<>>]

\* lines 126-138: the chat call returns the stream
StreamOpen ==
  /\ stream.pc = "called"
  /\ stream' = [stream EXCEPT !.pc = "iterating"]
  /\ UNCHANGED <<cacheVars, val, gen, retry, rel, store, prompt, http, ext>>

\* lines 140-167: one iteration of `for chunk in stream`
StreamChunk ==
  /\ stream.pc = "iterating"
  /\ Len(stream.chunks) < MaxChunks
  /\ \E t \in ThinkingTexts, c \in ContentTexts :
       LET chunk == Chunk(t, c) IN
       stream' = [stream EXCEPT
         !.chunks = Append(@, chunk),
         !.events = @ \o ChunkEvents(chunk, stream.thinking_complete),
         !.thinking_complete = @ \/ EmitsContent(chunk),
         !.full_response = @ \o chunk.content]
  /\ UNCHANGED <<cacheVars, val, gen, retry, rel, store, prompt, http, ext>>

\* lines 169-174: the stream is exhausted
StreamComplete ==
  /\ stream.pc = "iterating"
  /\ stream' = [stream EXCEPT
       !.pc = "done",
       !.events = Append(@, Event("complete", <<>>, <<>>, stream.full_response))]
  /\ UNCHANGED <<cacheVars, val, gen, retry, rel, store, prompt, http, ext>>

\* lines 176-181: the chat call or the iteration raised
StreamError ==
  /\ stream.pc \in {"called", "iterating"}
  /\ stream' = [stream EXCEPT
       !.pc = "done",
       !.events = Append(@, Event("error", <<>>, <<>>, <<>>))]
  /\ UNCHANGED <<cacheVars, val, gen, retry, rel, store, prompt, http, ext>>

NextStream == StreamOpen \/ StreamChunk \/ StreamComplete \/ StreamError

SpecStream == InitStream /\ [][NextStream]_vars

(***************************************************************************)
(* The stage handlers of VannaFastAPI over the session cache               *)
(* (src/backend/app/vanna/fastapi/fastapi_api.py lines 205-444, 583-659,   *)
(* 780-944) served concurrently.  task[t] is the request a server slot is  *)
(* serving and its position in the handler; every `await self.cache.get`   *)
(* and `await self.cache.set` is a step that needs the lock free; a        *)
(* position in InFlightPcs is a run_in_executor call that has not returned *)
(* yet.  A field of an entry is Absent or Present(value).                  *)
(***************************************************************************)
Slots == {"r1", "r2"}

\* Upper bound on the number of requests and deletes in one behaviour.
ApiMaxRequests == 2

ApiFields ==
  {"question", "sql", "df", "error_history", "plotly_code",
   "chart_instructions", "fig_json", "followup_questions", "summary"}

\* self.cache[id] = {}
NoEntry == [f \in ApiFields |-> Absent]

GeneratedStatement ==
  <<"S", "E", "L", "E", "C", "T", " ", "n", "a", "m", " ", "F", "R", "O",
    "M", " ", "t">>

DialectStatement ==
  <<"S", "E", "L", "E", "C", "T", " ", "T", "O", "P", " ", "1", " ", "*",
    " ", "F", "R", "O", "M", " ", "t">>

CorrectedStatement ==
  <<"S", "E", "L", "E", "C", "T", " ", "n", "a", "m", "e", " ", "F", "R",
    "O", "M", " ", "t">>

\* cache.py lines 70-74
SessionGet(c, id, f) == IF id \notin DOMAIN c THEN Absent ELSE c[id][f]

\* variant: the entry is replaced by {field: value}
SessionSetReplace(c, id, f, v) ==
  [i \in DOMAIN c \cup {id} |->
     IF i = id THEN [NoEntry EXCEPT ![f] = v] ELSE c[i]]

\* cache.py lines 64-68
SessionSet(c, id, f, v) ==
  [i \in DOMAIN c \cup {id} |->
     IF i = id
     THEN [(IF id \in DOMAIN c THEN c[id] ELSE NoEntry) EXCEPT ![f] = v]
     ELSE c[i]]

\* variant: every entry is dropped
SessionDeleteAll(c, id) == [i \in {} |-> NoEntry]

\* cache.py lines 86-89
SessionDelete(c, id) == [i \in DOMAIN c \ {id} |-> c[i]]

InFlightPcs ==
  {"gs_call", "gs_valid", "rs_call", "rs_chart", "fx_call", "pl_code",
   "pl_fig", "fu_call", "su_call", "cf_call", "gf_call"}

\* ok: no field read so far was None; stale: an update_sql of the same id
\* completed while this request was being served
ApiIdle ==
  [pc |-> "idle", handler |-> "none", id |-> "A", ok |-> TRUE,
   sql |-> Absent, arg |-> Absent, stale |-> FALSE, offloaded |-> FALSE,
   wrote |-> FALSE, resp |-> "none"]

\* the position a handler moves to; offloaded records that it made a
\* run_in_executor call
Goes(r, pc) ==
  [r EXCEPT !.pc = pc, !.offloaded = @ \/ pc \in InFlightPcs]

\* the handler returns a body of the given type, or raises HTTPException;
\* the body of generate_sql also carries the id and the statement
Responds(r, type) == [ApiIdle EXCEPT !.resp = type]

\* variant: a field that is None passes for a value
ReadsAnything(t, f) == task[t]

\* the task record after `x = await self.cache.get(id, f)` for a field the
\* handler tests with `if x is None`
Reads(t, f) ==
  [task[t] EXCEPT !.ok = @ /\ SessionGet(cache, task[t].id, f) # Absent]

\* variant: the executor call is made inside the `async with` block
ReleasedAfterCall(t, pc) == IF pc \in InFlightPcs THEN t ELSE NoTask

\* cache.py lines 65, 71: leaving `async with self._lock`
Released(t, pc) == NoTask

\* history for update_sql: the statement of the last completed update_sql
\* of an id, until a request received after it, or a stage other than
\* run_sql, writes the sql field
Protect(sh, t, f, v) ==
  IF f # "sql" THEN sh
  ELSE IF task[t].handler = "update_sql" THEN [sh EXCEPT ![task[t].id] = v]
  ELSE IF task[t].stale /\ task[t].handler = "run_sql" THEN sh
  ELSE [sh EXCEPT ![task[t].id] = Absent]

\* the requests being served on the id of t when its update_sql completes
Overtaken(t, f) ==
  IF f = "sql" /\ task[t].handler = "update_sql"
  THEN {s \in Slots \ {t} : task[s].pc # "idle" /\ task[s].id = task[t].id}
  ELSE {}

\* a request arrives and is served by the first free slot
Start(t, handler, id, arg, pc) ==
  /\ task[t].pc = "idle"
  /\ t = "r1" \/ task["r1"].pc # "idle"
  /\ calls < ApiMaxRequests
  /\ calls' = calls + 1
  /\ task' = [task EXCEPT ![t] =
       Goes([ApiIdle EXCEPT !.handler = handler, !.id = id, !.arg = arg], pc)]
  /\ UNCHANGED <<cache, lock, shadow>>

\* `await self.cache.get(id, f)`, after which the handler is at r.pc: the
\* lock is taken when free and the body of get has no await, so the event
\* loop runs the call as one step
CacheRead(t, r) ==
  /\ lock = NoTask
  /\ lock' = Released(t, r.pc)
  /\ task' = [task EXCEPT ![t] = r]
  /\ UNCHANGED <<cache, shadow, calls>>

\* `await self.cache.set(id, f, v)`
CacheWrite(t, f, v, r) ==
  /\ lock = NoTask
  /\ lock' = Released(t, r.pc)
  /\ cache' = SessionSet(cache, task[t].id, f, v)
  /\ shadow' = Protect(shadow, t, f, v)
  /\ task' = [s \in Slots |->
       IF s = t THEN [r EXCEPT !.wrote = r.pc # "idle"]
       ELSE IF s \in Overtaken(t, f) THEN [task[s] EXCEPT !.stale = TRUE]
       ELSE task[s]]
  /\ UNCHANGED calls

\* a run_in_executor call returns
Returns(t, r) ==
  /\ task' = [task EXCEPT ![t] = r]
  /\ UNCHANGED <<cache, lock, shadow, calls>>

\* generate_id: a uuid no entry and no request in progress carries
FreshIds ==
  Ids \ (DOMAIN cache \cup {task[t].id : t \in {s \in Slots : task[s].pc # "idle"}})

\* the ids a client can send: any but the uuid of a generate_sql or
\* get_function request that has not been answered yet
KnownIds ==
  Ids \ {task[t].id : t \in {s \in Slots :
            /\ task[s].pc # "idle"
            /\ task[s].handler \in {"generate_sql", "get_function"}}}

\* the `if x is None: raise HTTPException(status_code=400)` tests after
\* the reads: the stage goes on, or the request is rejected
Checked(r, pc) ==
  IF r.ok THEN Goes(r, pc)
  ELSE [Responds(r, "http400") EXCEPT !.handler = r.handler, !.id = r.id]

\* lines 205-236
GenerateSql(t) ==
  \/ \E id \in FreshIds : Start(t, "generate_sql", id, Absent, "gs_call")
  \/ /\ task[t].pc = "gs_call"
     /\ \E s \in {GeneratedStatement, DialectStatement} :
          Returns(t, Goes([task[t] EXCEPT !.arg = s], "gs_set_question"))
  \/ /\ task[t].pc = "gs_set_question"
     /\ CacheWrite(t, "question", Present("question"),
                   Goes(task[t], "gs_set_sql"))
  \/ /\ task[t].pc = "gs_set_sql"
     /\ CacheWrite(t, "sql", Present(task[t].arg), Goes(task[t], "gs_valid"))
  \/ /\ task[t].pc = "gs_valid"
     /\ Returns(t, [Responds(task[t], IF is_sql_valid(task[t].arg)
                                      THEN "sql" ELSE "text")
                      EXCEPT !.handler = "generate_sql", !.id = task[t].id,
                             !.arg = task[t].arg])

\* run_sql_with_retry(sql, 2, question) as the run_sql handler sees it:
\* it executes sql first; rows come back for it or for a rewrite that
\* passed is_sql_valid, or no rows come back
RunOutcomes(sql) ==
  {[rows |-> TRUE, final_sql |-> sql],
   [rows |-> TRUE, final_sql |-> CorrectedStatement],
   [rows |-> FALSE, final_sql |-> sql]}

\* lines 238-304
RunSql(t) ==
  \/ \E id \in KnownIds : Start(t, "run_sql", id, Absent, "rs_get_sql")
  \/ /\ task[t].pc = "rs_get_sql"
     /\ CacheRead(t, Checked([Reads(t, "sql") EXCEPT
                                !.sql = SessionGet(cache, task[t].id, "sql")],
                             "rs_get_question"))
  \/ /\ task[t].pc = "rs_get_question"
     /\ CacheRead(t, Goes(task[t], "rs_call"))
  \/ /\ task[t].pc = "rs_call"
     /\ \/ \E o \in RunOutcomes(task[t].sql[1]) :
             Returns(t, Goes([task[t] EXCEPT !.arg = o.final_sql],
                             IF o.rows THEN "rs_set_df" ELSE "rs_exhausted"))
        \/ Returns(t, Responds(task[t], "sql_error"))
  \/ /\ task[t].pc = "rs_set_df"
     /\ CacheWrite(t, "df", Present("df"), Goes(task[t], "rs_set_sql"))
  \/ /\ task[t].pc = "rs_set_sql"
     /\ CacheWrite(t, "sql", Present(task[t].arg),
                   Goes(task[t], IF Present(task[t].arg) # task[t].sql
                                 THEN "rs_set_history" ELSE "rs_chart"))
  \/ /\ task[t].pc = "rs_set_history"
     /\ CacheWrite(t, "error_history", Present("history"),
                   Goes(task[t], "rs_chart"))
  \/ /\ task[t].pc = "rs_chart"
     /\ \E type \in {"df", "sql_error"} : Returns(t, Responds(task[t], type))
  \/ /\ task[t].pc = "rs_exhausted"
     /\ CacheRead(t, Responds(task[t], "text"))

\* lines 306-338
FixSql(t) ==
  \/ \E id \in KnownIds : Start(t, "fix_sql", id, Absent, "fx_get_question")
  \/ /\ task[t].pc = "fx_get_question"
     /\ CacheRead(t, Goes(Reads(t, "question"), "fx_get_sql"))
  \/ /\ task[t].pc = "fx_get_sql"
     /\ CacheRead(t, Checked(Reads(t, "sql"), "fx_call"))
  \/ /\ task[t].pc = "fx_call"
     /\ \E s \in {CorrectedStatement, DialectStatement} :
          Returns(t, Goes([task[t] EXCEPT !.arg = s], "fx_set_sql"))
  \/ /\ task[t].pc = "fx_set_sql"
     /\ CacheWrite(t, "sql", Present(task[t].arg), Responds(task[t], "sql"))

\* lines 340-356
UpdateSql(t) ==
  \/ \E id \in KnownIds, s \in {CorrectedStatement, DialectStatement} :
       Start(t, "update_sql", id, s, "up_set_sql")
  \/ /\ task[t].pc = "up_set_sql"
     /\ CacheWrite(t, "sql", Present(task[t].arg), Responds(task[t], "sql"))

\* lines 377-444
GeneratePlotlyFigure(t) ==
  \/ \E id \in KnownIds, arg \in {Absent, Present("instructions")} :
       Start(t, "generate_plotly_figure", id, arg, "pl_get_df")
  \/ /\ task[t].pc = "pl_get_df"
     /\ CacheRead(t, Goes(Reads(t, "df"), "pl_get_question"))
  \/ /\ task[t].pc = "pl_get_question"
     /\ CacheRead(t, Goes(Reads(t, "question"), "pl_get_sql"))
  \/ /\ task[t].pc = "pl_get_sql"
     /\ CacheRead(t, Checked(Reads(t, "sql"),
                             IF task[t].arg = Absent
                             THEN "pl_get_code" ELSE "pl_code"))
  \/ /\ task[t].pc = "pl_get_code"
     /\ CacheRead(t, Goes(task[t],
                          IF SessionGet(cache, task[t].id, "plotly_code") = Absent
                          THEN "pl_code" ELSE "pl_fig"))
  \/ /\ task[t].pc = "pl_code"
     /\ \/ Returns(t, Goes(task[t], "pl_set_code"))
        \/ Returns(t, Responds(task[t], "error"))
  \/ /\ task[t].pc = "pl_set_code"
     /\ CacheWrite(t, "plotly_code", Present("figure_code"),
                   Goes(task[t], IF task[t].arg = Absent
                                 THEN "pl_fig" ELSE "pl_set_instructions"))
  \/ /\ task[t].pc = "pl_set_instructions"
     /\ CacheWrite(t, "chart_instructions", task[t].arg, Goes(task[t], "pl_fig"))
  \/ /\ task[t].pc = "pl_fig"
     /\ \/ Returns(t, Goes(task[t], "pl_set_fig"))
        \/ Returns(t, Responds(task[t], "error"))
  \/ /\ task[t].pc = "pl_set_fig"
     /\ CacheWrite(t, "fig_json", Present("fig_json"),
                   Responds(task[t], "plotly_figure"))

\* lines 583-624; arg is self.allow_llm_to_see_data
GenerateFollowupQuestions(t) ==
  \/ \E id \in KnownIds, allow \in {Absent, Present("allow")} :
       Start(t, "generate_followup_questions", id, allow, "fu_get_df")
  \/ /\ task[t].pc = "fu_get_df"
     /\ CacheRead(t, Goes(Reads(t, "df"), "fu_get_question"))
  \/ /\ task[t].pc = "fu_get_question"
     /\ CacheRead(t, Goes(Reads(t, "question"), "fu_get_sql"))
  \/ /\ task[t].pc = "fu_get_sql"
     /\ CacheRead(t, Checked(Reads(t, "sql"),
                             IF task[t].arg = Absent THEN "fu_set" ELSE "fu_call"))
  \/ /\ task[t].pc = "fu_call"
     /\ Returns(t, Goes(task[t], "fu_set"))
  \/ /\ task[t].pc = "fu_set"
     /\ CacheWrite(t, "followup_questions",
                   Present(IF task[t].arg = Absent THEN "empty" ELSE "questions"),
                   Responds(task[t], "question_list"))

\* lines 626-659; arg is self.allow_llm_to_see_data
GenerateSummary(t) ==
  \/ \E id \in KnownIds, allow \in {Absent, Present("allow")} :
       Start(t, "generate_summary", id, allow, "su_get_df")
  \/ /\ task[t].pc = "su_get_df"
     /\ CacheRead(t, Goes(Reads(t, "df"), "su_get_question"))
  \/ /\ task[t].pc = "su_get_question"
     /\ LET r == Checked(Reads(t, "question"), "su_call")
        IN  CacheRead(t, IF r.pc = "su_call" /\ task[t].arg = Absent
                         THEN Responds(r, "text") ELSE r)
  \/ /\ task[t].pc = "su_call"
     /\ Returns(t, Goes(task[t], "su_set"))
  \/ /\ task[t].pc = "su_set"
     /\ CacheWrite(t, "summary", Present("summary"), Responds(task[t], "text"))

\* lines 917-944
CreateFunction(t) ==
  \/ \E id \in KnownIds : Start(t, "create_function", id, Absent, "cf_get_question")
  \/ /\ task[t].pc = "cf_get_question"
     /\ CacheRead(t, Goes(Reads(t, "question"), "cf_get_sql"))
  \/ /\ task[t].pc = "cf_get_sql"
     /\ CacheRead(t, Checked(Reads(t, "sql"), "cf_get_code"))
  \/ /\ task[t].pc = "cf_get_code"
     /\ CacheRead(t, Goes(task[t], "cf_call"))
  \/ /\ task[t].pc = "cf_call"
     /\ Returns(t, Responds(task[t], "function_template"))

\* lines 780-814, when self.vn has get_function; arg tells whether the
\* function carries post-processing code
GetFunction(t) ==
  \/ \E id \in FreshIds, code \in {Absent, Present("function_code")} :
       Start(t, "get_function", id, code, "gf_call")
  \/ /\ task[t].pc = "gf_call"
     /\ \/ Returns(t, Goes(task[t], "gf_set_question"))
        \/ Returns(t, Responds(task[t], "error"))
  \/ /\ task[t].pc = "gf_set_question"
     /\ CacheWrite(t, "question", Present("question"), Goes(task[t], "gf_set_sql"))
  \/ /\ task[t].pc = "gf_set_sql"
     /\ CacheWrite(t, "sql", Present(GeneratedStatement),
                   IF task[t].arg = Absent THEN Responds(task[t], "function")
                   ELSE Goes(task[t], "gf_set_code"))
  \/ /\ task[t].pc = "gf_set_code"
     /\ CacheWrite(t, "plotly_code", task[t].arg, Responds(task[t], "function"))

\* entries earlier requests left: a generated statement, its rows
AnsweredEntry ==
  [NoEntry EXCEPT !["question"] = Present("question"),
                  !["sql"] = Present(GeneratedStatement)]

ExecutedEntry == [AnsweredEntry EXCEPT !["df"] = Present("df")]

SeedCaches ==
  {[i \in {} |-> NoEntry], [i \in {"A"} |-> AnsweredEntry],
   [i \in {"A"} |-> ExecutedEntry]}

InitApi ==
  /\ cache \in SeedCaches
  /\ lock = NoTask
  /\ task = [t \in Slots |-> ApiIdle]
  /\ shadow = [i \in Ids |-> Absent]
  /\ calls = 0
  /\ val = NoVal /\ gen = NoGen /\ rel = NoRel /\ retry = NoRetry
  /\ MoreOff

Handler(t) ==
  \/ GenerateSql(t) \/ RunSql(t) \/ FixSql(t) \/ UpdateSql(t)
  \/ GeneratePlotlyFigure(t) \/ GenerateFollowupQuestions(t)
  \/ GenerateSummary(t) \/ CreateFunction(t) \/ GetFunction(t)

NextApi ==
  /\ \E t \in Slots : Handler(t)
  /\ UNCHANGED textVars

SpecApi == InitApi /\ [][NextApi]_vars

\* a client of the cache calls delete(id): cache.py lines 86-89
Evict(id) ==
  /\ lock = NoTask
  /\ calls < ApiMaxRequests
  /\ calls' = calls + 1
  /\ cache' = SessionDelete(cache, id)
  /\ UNCHANGED <<lock, task, shadow, textVars>>

NextEvict == NextApi \/ \E id \in Ids : Evict(id)

SpecEvict == InitApi /\ [][NextEvict]_vars

(***************************************************************************)
(* Session cache properties                                                *)
(***************************************************************************)
AllWritersDone == \A t \in DOMAIN task : task[t].pc = "done"

\* C1: N concurrent set calls writing N different fields of one request id:
\* in every interleaving, once all of them have completed, each field holds
\* the value its call wrote (no write is lost).
C1_NoLostWrite ==
  AllWritersDone =>
    \A t \in DOMAIN task : CacheGet(cache, task[t].id, task[t].field) = task[t].value

\* C1 witness: three writers on one id have all completed.
C1_Witness ==
  /\ AllWritersDone
  /\ Cardinality(DOMAIN task) = 3
  /\ \A t \in DOMAIN task : task[t].op = "set"

\* C2: any step of set(A, field, v) leaves get(B, f) unchanged for every
\* other id B and every field f.
C2_OtherIdsUntouched ==
  [][\A t \in DOMAIN task :
       (task[t].op = "set" /\ task'[t] # task[t]) =>
         \A b \in Ids \ {task[t].id} : \A f \in Fields :
           CacheGet(cache', b, f) = CacheGet(cache, b, f)]_vars

\* C2 witness: set(A, "sql", v) has completed while B holds a different sql.
C2_Witness ==
  \E t \in DOMAIN task :
    /\ task[t].pc = "done" /\ task[t].op = "set"
    /\ task[t].id = "A" /\ task[t].field = "sql"
    /\ CacheGet(cache, "B", "sql") \notin {None, task[t].value}

\* C3: a get(id, field) that completes after set(id, field, v) completed, with
\* no later completed set on (id, field) and no later completed delete(id),
\* returns v.  shadow holds exactly that v at the instant the get reads.
C3_ReadSeesLastSet ==
  \A t \in DOMAIN task :
    (task[t].pc = "done" /\ task[t].op = "get" /\ task[t].expect # None) =>
      task[t].result = task[t].expect

\* C3 witness: a get by one task returned the value another field's writer
\* left untouched, after a second field of the same id was written.
C3_Witness ==
  \E t \in DOMAIN task :
    /\ task[t].pc = "done" /\ task[t].op = "get" /\ task[t].expect # None
    /\ \E g \in Fields \ {task[t].field} : shadow[task[t].id][g] # None

(***************************************************************************)
(* Lock discipline properties                                              *)
(***************************************************************************)
\* the coroutine is between `async with self._lock` and the return
InsideMap(t) ==
  task[t].pc \in {"test", "create", "store", "read", "scan", "item", "remove"}

\* C20: every operation runs entirely under the single lock, so at most one
\* coroutine is inside the map at a time, and a completed get_all returns
\* the snapshot of one instant of its call: one item per request id present
\* at that instant, carrying for each requested field the value stored then
\* or None
C20_LockedSnapshot ==
  /\ \A t \in DOMAIN task : InsideMap(t) => lock = t
  /\ \A t \in DOMAIN task :
       (task[t].op = "get_all" /\ task[t].pc = "done") =>
          \E c \in task[t].seen : task[t].result = CacheGetAll(c, task[t].field_list)

\* C20 witness: get_all returned items for two request ids, and a set that
\* waited for the lock has since changed a field the snapshot carries
C20_Witness ==
  \E t, w \in DOMAIN task :
    /\ task[t].op = "get_all" /\ task[t].pc = "done"
    /\ DOMAIN task[t].result = Ids
    /\ task[w].op = "set" /\ task[w].pc = "done"
    /\ task[t].result # CacheGetAll(cache, task[t].field_list)

(***************************************************************************)
(* Synthesis properties                                                    *)
(***************************************************************************)
GenFinished == gen.pc \in {"returned", "raised"}

\* C4: generate_sql makes at most 3 attempts; unless the language model
\* call itself fails, the call ends by returning the statement of its last
\* attempt, at the first attempt whose statement is valid, and otherwise
\* after exactly 3 attempts.
C4_BoundedAttempts ==
  (GenFinished /\ gen.err # "SynthesisError") =>
     /\ gen.pc = "returned"
     /\ gen.attempt \in 1..max_attempts
     /\ gen.ret = gen.sql
     /\ (~is_sql_valid(gen.ret) => gen.attempt = max_attempts)

\* C5: when get_exact_question_sql finds a stored pair for the asked
\* question, generate_sql returns exactly the stored sql and the language
\* model is not invoked.
C5_ExactMatchPrecedence ==
  (GenFinished /\ get_exact_question_sql(gen.docs, gen.asked).found) =>
     /\ gen.pc = "returned"
     /\ gen.ret = get_exact_question_sql(gen.docs, gen.asked).sql
     /\ gen.llm = 0

C15_TransportFailurePropagates ==
  /\ [](gen.err = "SynthesisError" => (gen.pc = "raised" /\ gen.ret = <<>>))
  /\ [][gen.err = "SynthesisError" => gen' = gen]_vars

C15_Witness ==
  /\ gen.err = "SynthesisError"
  /\ gen.pc = "raised"
  /\ gen.llm = 1

(***************************************************************************)
(* Execution retry properties                                              *)
(***************************************************************************)
Failures == Cardinality({i \in 1..Len(retry.executions) : ~retry.executions[i].ok})

LastExecution == retry.executions[Len(retry.executions)]

IsPrefix(a, b) == Len(a) <= Len(b) /\ \A i \in 1..Len(a) : a[i] = b[i]

\* C6: when the database fails the first k executions and then succeeds,
\* with k <= max_retries, the call returns a result, final_sql is the
\* statement of execution k+1 and the history has k records (none for
\* k = 0); the call gives up only after more than max_retries failures.
C6_SucceedsAfterFailures ==
  retry.pc = "returned" =>
     IF LastExecution.ok
     THEN /\ retry.result # NoResult
          /\ Failures <= retry.max_retries
          /\ Len(retry.executions) = Failures + 1
          /\ retry.final_sql = retry.executions[Failures + 1].sql
          /\ Len(retry.history) = Failures
     ELSE Failures > retry.max_retries

C6_Witness ==
  /\ retry.pc = "returned" /\ retry.result # NoResult
  /\ retry.max_retries = RunSqlMaxRetries /\ Failures = 2
  /\ retry.final_sql # retry.first

\* C7 as stated: the history is as long as the number of failed
\* executions, never longer than max_retries, and only grows by appending.
C7_HistoryAtMostMaxRetries ==
  /\ [](/\ Len(retry.history) = Failures
        /\ Len(retry.history) <= retry.max_retries)
  /\ [][IsPrefix(retry.history, retry.history')]_vars

\* C7 amended: the history is as long as the number of failed executions,
\* never longer than max_retries + 1, and only grows by appending.
C7_HistoryAtMostExecutions ==
  /\ [](/\ Len(retry.history) = Failures
        /\ Len(retry.history) <= retry.max_retries + 1)
  /\ [][IsPrefix(retry.history, retry.history')]_vars

C7_Witness ==
  /\ retry.pc = "returned"
  /\ Len(retry.history) = retry.max_retries + 1
  /\ retry.max_retries = RunSqlMaxRetries

\* C8: when every execution fails the call ends after max_retries + 1
\* executions and returns (None, the last statement attempted, the full
\* history); when it returns a result, final_sql is the statement that
\* succeeded.
C8_ExhaustedReturnsLast ==
  /\ Len(retry.executions) <= retry.max_retries + 1
  /\ retry.pc = "returned" =>
       /\ retry.final_sql = LastExecution.sql
       /\ (retry.result = NoResult) = ~LastExecution.ok
       /\ ~LastExecution.ok =>
            /\ Len(retry.executions) = retry.max_retries + 1
            /\ Len(retry.history) = Len(retry.executions)
            /\ \A i \in 1..Len(retry.history) :
                 retry.history[i].sql = retry.executions[i].sql

C8_Witness ==
  /\ retry.pc = "returned" /\ retry.result = NoResult
  /\ retry.max_retries = RunSqlMaxRetries
  /\ retry.final_sql # retry.first

(***************************************************************************)
(* Retrieval properties                                                    *)
(***************************************************************************)
Relevant == {i \in 1..Len(rel.distances) : rel.distances[i] <= 900}

Returned == {rel.documents[k] : k \in 1..Len(rel.documents)}

\* C10: get_similar_question_sql returns only neighbours with distance
\* <= 0.9, each once, in ascending order of distance, all of them when there
\* are at most 5 and otherwise the 5 nearest; for the distances
\* [0.35, 0.41, 0.51, 0.76, 0.82, 0.88, 0.92, 0.94, 0.95, 1.07] these are
\* the first five.
C10_RelevanceCutoff ==
  (rel.pc = "returned" /\ rel.getter = "sql") =>
     /\ Returned \subseteq Relevant
     /\ Cardinality(Returned) = Len(rel.documents)
     /\ Len(rel.documents) =
          (IF Cardinality(Relevant) < 5 THEN Cardinality(Relevant) ELSE 5)
     /\ \A k \in 1..Len(rel.documents) - 1 :
          rel.distances[rel.documents[k]] <= rel.distances[rel.documents[k + 1]]
     /\ \A i \in Relevant \ Returned : \A j \in Returned :
          rel.distances[j] <= rel.distances[i]
     /\ rel.distances = SortedExampleDistances => rel.documents = <<1, 2, 3, 4, 5>>

C10_Witness ==
  /\ rel.pc = "returned" /\ rel.getter = "sql"
  /\ Cardinality(Relevant) > 5
  /\ Relevant # 1..Len(rel.distances)
  /\ \E i \in Relevant : i + 1 \in Relevant /\ rel.distances[i] > rel.distances[i + 1]
  /\ \E i \in Relevant : rel.distances[i] = 900 /\ i \in Returned

(***************************************************************************)
(* Vector store properties                                                 *)
(***************************************************************************)
CollectionNamed(name) ==
  CASE name = "sql" -> store.sql
    [] name = "ddl" -> store.ddl
    [] name = "documentation" -> store.documentation

\* C11: inserting the same content of the same kind again returns the id
\* the earlier insert returned and leaves the number of stored entries as
\* it was; no collection ever holds the same content twice.
C11_IdempotentIngestion ==
  /\ \A a, b \in store.issued :
       (a.collection = b.collection /\ a.content = b.content) => a.id = b.id
  /\ \A name \in CollectionNames :
       \A i, j \in 1..Len(CollectionNamed(name)) :
         CollectionNamed(name)[i].document = CollectionNamed(name)[j].document => i = j
  /\ (store.last.op = "add" /\ store.last.present) =>
       Len(CollectionNamed(store.last.collection)) = store.last.before

C11_Witness ==
  /\ store.last.op = "add" /\ store.last.present
  /\ store.last.collection = "sql"
  /\ Len(store.sql) = 2

\* the stored pairs whose question equals q up to case and surrounding
\* whitespace, by position in the sql collection
Matching(q) ==
  {i \in 1..Len(store.sql) :
     LowerSeq(Strip(store.sql[i].document.question)) = LowerSeq(Strip(q))}

\* C19: get_exact_question_sql(q) returns a value exactly when a pair whose
\* question equals q up to case and surrounding whitespace is stored at that
\* moment, and the value is the sql of the first such pair; so a lookup
\* after the pair was removed misses.
C19_ExactLookup ==
  store.last.op = "get_exact" =>
     LET hits == Matching(store.last.question) IN
     /\ store.last.result.found <=> hits # {}
     /\ store.last.result.found =>
          \E i \in hits :
            /\ \A j \in hits : i <= j
            /\ store.last.result.sql = store.sql[i].document.sql

\* a question that was trained, differs from the stored text in case and
\* whitespace, and is looked up after its pairs were removed
C19_Witness ==
  /\ store.last.op = "get_exact"
  /\ ~store.last.result.found
  /\ \E a \in store.issued :
       /\ a.collection = "sql"
       /\ a.content.question # store.last.question
       /\ LowerSeq(Strip(a.content.question)) = LowerSeq(Strip(store.last.question))

(***************************************************************************)
(* Miss properties                                                         *)
(***************************************************************************)
\* C14: a get for an id that is unknown or a field that was never set
\* returns None, and no get changes the cache (it creates no entry); a
\* get_exact_question_sql that matches no stored question returns None and
\* leaves the collection as it was.
C14_MissReturnsNone ==
  /\ [](\A t \in DOMAIN task :
          (task[t].op = "get" /\ task[t].pc = "done"
             /\ shadow[task[t].id][task[t].field] = None) =>
            task[t].result = None)
  /\ [][\A t \in DOMAIN task :
          (task[t].pc = "read" /\ task'[t].pc = "done") => cache' = cache]_vars
  /\ []((store.last.op = "get_exact" /\ Matching(store.last.question) = {}) =>
          store.last.result = [found |-> FALSE, sql |-> <<>>])
  /\ [][store'.last # store.last => store'.sql = store.sql]_vars

C14_Witness ==
  /\ \E t \in DOMAIN task :
       /\ task[t].op = "get" /\ task[t].pc = "done"
       /\ task[t].result = None
       /\ task[t].id \notin DOMAIN cache
  /\ cache # EmptyCache
  /\ store.last.op = "get_exact" /\ ~store.last.result.found
  /\ store.sql # <<>>

Offered(kind) ==
  CASE kind = "ddl" -> prompt.ddl_list
    [] kind = "doc" -> prompt.doc_list
    [] kind = "sql" -> [i \in 1..Len(prompt.question_sql_list) |->
                          prompt.question_sql_list[i].sql]

FragmentKinds == {"ddl", "doc", "sql"}

OfferedLengths ==
  {0} \cup UNION {{Offered(k)[i] : i \in 1..Len(Offered(k))} : k \in FragmentKinds}

LargestOffered == CHOOSE l \in OfferedLengths : \A m \in OfferedLengths : m <= l

\* C16: the estimate (characters / 4) of the assembled system prompt exceeds
\* max_tokens by no more than the estimate of one fragment; every fragment
\* in the prompt is there whole, and was appended only when the running
\* estimate plus its own estimate was below max_tokens.
C16_PromptBudget ==
  prompt.pc = "returned" =>
     /\ PartsLength(prompt.system) <= 4 * prompt.max_tokens + LargestOffered
     /\ \A k \in 1..Len(prompt.system) :
          prompt.system[k].kind \in FragmentKinds =>
            LET fragment == Offered(prompt.system[k].kind)[prompt.system[k].item] IN
            /\ prompt.system[k].len = fragment + 2
            /\ PartsLength(SubSeq(prompt.system, 1, k - 1)) + fragment
                 < 4 * prompt.max_tokens

(***************************************************************************)
(* Error history properties                                                *)
(***************************************************************************)
\* a run_sql request has been answered after run_sql_with_retry returned
\* with at least one failed execution
RunWithFailureAnswered ==
  /\ http.pc = "responded" /\ retry # NoRetry
  /\ retry.pc = "returned" /\ Len(retry.history) >= 1

\* C17: after a run_sql request in which at least one execution failed the
\* session entry holds that run's correction history and a following
\* get_error_history returns it, whether a corrected statement succeeded or
\* the retries were exhausted; in the latter case the answer has type
\* sql_error and carries the full history
C17_HistoryStoredAfterFailure ==
  RunWithFailureAnswered =>
     /\ http.session.error_history = Present(retry.history)
     /\ http.asked => http.history_response = retry.history
     /\ retry.result = NoResult =>
          /\ http.response.type = "sql_error"
          /\ http.response.error_history = Present(retry.history)

\* run_sql_with_retry returned rows and the request has been answered
RunSucceededAnswered ==
  /\ http.pc = "responded" /\ retry.pc = "returned"
  /\ retry.result # NoResult

SectionRank(part) ==
  LET kind == IF part.kind = "header" THEN part.item ELSE part.kind IN
  CASE kind = "preamble" -> 1
    [] kind = "ddl" -> 2
    [] kind = "doc" -> 3
    [] kind = "sql" -> 4
    [] OTHER -> 5

\* C23: the message list of get_sql_prompt is ordered: the system message
\* comes first and holds the preamble, then the DDL fragments, then the
\* documentation, then the worked examples; the example question/SQL turns
\* follow in order; the current question is the final turn with role user
C23_MessageOrder ==
  prompt.pc = "returned" =>
    LET log == prompt.message_log
        examples == prompt.question_sql_list
    IN
    /\ Len(log) = 2 * Len(examples) + 2
    /\ log[1] = Message("system", PartsLength(prompt.system))
    /\ prompt.system[1].kind = "preamble"
    /\ \A i, j \in 1..Len(prompt.system) :
         i < j => SectionRank(prompt.system[i]) <= SectionRank(prompt.system[j])
    /\ \A k \in 1..Len(examples) :
         /\ log[2 * k] = Message("user", examples[k].question)
         /\ log[2 * k + 1] = Message("assistant", examples[k].sql)
    /\ log[Len(log)] = Message("user", prompt.question)

\* C23 witness: a prompt with DDL, documentation and two different examples
C23_Witness ==
  /\ prompt.pc = "returned"
  /\ Len(prompt.question_sql_list) = 2
  /\ prompt.question_sql_list[1] # prompt.question_sql_list[2]
  /\ \A kind \in {"ddl", "doc", "sql"} :
       \E i \in 1..Len(prompt.system) : prompt.system[i].kind = kind

(***************************************************************************)
(* Extraction properties                                                   *)
(***************************************************************************)
\* the first fenced block of a text: <<found, content>>, the content without
\* the language tag and surrounding white space
FirstFencedBlock(s) ==
  LET p == IndexFrom(s, Fence, 1)
      q == IF p = 0 THEN 0 ELSE IndexFrom(s, Fence, p + 3)
      g == IF MatchAtCI(s, p + 3, <<"s", "q", "l">>) THEN p + 6 ELSE p + 3
  IN IF q = 0 THEN <<FALSE, <<>>>> ELSE <<TRUE, Strip(SubSeq(s, g, q - 1))>>

\* the text up to its first semicolon: the first statement of a block
FirstStatement(s) ==
  LET semi == IndexFrom(s, <<";">>, 1)
  IN Strip(IF semi = 0 THEN s ELSE SubSeq(s, 1, semi - 1))

\* the first position where the keyword SELECT or WITH starts, 0 if none
FirstKeyword(s) ==
  LET hits == {i \in 1..Len(s) :
                 \/ MatchAtCI(s, i, <<"s", "e", "l", "e", "c", "t">>)
                 \/ MatchAtCI(s, i, <<"w", "i", "t", "h">>)}
  IN IF hits = {} THEN 0 ELSE CHOOSE i \in hits : \A k \in hits : i <= k

\* from the keyword to the first semicolon, bracket or fence after it, or to
\* the end of the text when none follows
KeywordToTerminator(s) ==
  LET i == FirstKeyword(s)
      t == FirstTerminator(s, i)
  IN SubSeq(s, i, IF t = 0 THEN Len(s) ELSE t - 1)

\* the statement expected by the claim is what Ollama.extract_sql returned or
\* what is left of it after the clean-up, white space at the ends aside
Extracted(expected) ==
  Strip(expected) \in {Strip(ext.sql), ext.clean}

\* C24: extraction applies two strategies in order: when the model output
\* holds a fenced code block the result is the content of the first fenced
\* block; otherwise the result starts at the first SELECT or WITH keyword and
\* runs to a terminator (semicolon, bracket, fence or end of string); when
\* neither matches the raw model output is returned
C24_TwoStrategies ==
  ext.pc = "returned" =>
    LET r == ext.llm_response
        block == FirstFencedBlock(r)
    IN
    /\ (block[1] /\ FirstStatement(block[2]) # <<>>) =>
          Extracted(FirstStatement(block[2]))
    /\ (IndexFrom(r, Fence, 1) = 0 /\ FirstKeyword(r) # 0) =>
          Extracted(KeywordToTerminator(r))
    /\ (IndexFrom(r, Fence, 1) = 0 /\ FirstKeyword(r) = 0) => Extracted(r)

(***************************************************************************)
(* Streaming properties                                                    *)
(***************************************************************************)
\* positions of the events of one type
EventsOfType(type) ==
  {i \in 1..Len(stream.events) : stream.events[i].type = type}

RECURSIVE ContentOf(_)
\* the content of the events, concatenated in order
ContentOf(events) ==
  IF events = <<>> THEN <<>>
  ELSE Head(events).content \o ContentOf(Tail(events))

\* C30: the events of _submit_prompt_stream are zero or more thinking events,
\* then optionally one thinking_end immediately followed by one or more
\* content events, then exactly one terminal event (complete or error) with
\* nothing after it; no thinking event follows thinking_end, thinking_end is
\* emitted at most once, and the full_response of complete is the in-order
\* concatenation of all content events
C30_EventShape ==
  LET events == stream.events
      n == Len(events)
      terminal == EventsOfType("complete") \cup EventsOfType("error")
      ends == EventsOfType("thinking_end")
  IN
  stream # NoStream =>
    /\ Cardinality(ends) <= 1
    /\ \A e \in ends :
         /\ e < n /\ events[e + 1].type = "content"
         /\ \A i \in 1..(e - 1) : events[i].type = "thinking"
         /\ \A i \in (e + 1)..n : events[i].type \in {"content", "complete", "error"}
    /\ ends = {} => EventsOfType("content") = {}
    /\ terminal \subseteq {n}
    /\ (stream.pc = "done") = (terminal # {})
    /\ \A i \in EventsOfType("complete") :
         events[i].full_response = ContentOf(SubSeq(events, 1, i - 1))

\* C30 witness: thinking, the end of thinking, two content events and the
\* completion, with thinking text arriving after the answer had begun
C30_Witness ==
  /\ stream # NoStream /\ stream.pc = "done"
  /\ EventsOfType("thinking") # {} /\ EventsOfType("complete") # {}
  /\ Cardinality(EventsOfType("content")) >= 2
  /\ \E i, j \in 1..Len(stream.chunks) :
       i < j /\ stream.chunks[i].content # <<>> /\ stream.chunks[j].thinking # <<>>

(***************************************************************************)
(* Stage handler properties                                                *)
(***************************************************************************)
\* C27: a concurrent run_sql does not lose the user's update: once
\* update_sql(id, s) has completed, get(id, "sql") returns s until a
\* request that starts afterwards writes the sql field of id
C27_UpdateNotLost ==
  \A id \in Ids :
    shadow[id] # Absent => SessionGet(cache, id, "sql") = shadow[id]

\* C26: every statement submitted to the database has passed static
\* validation: the generate_sql endpoint answers type "sql" exactly when
\* is_sql_valid holds of the statement and "text" otherwise, and the
\* statement run_sql hands to the database satisfies is_sql_valid
C26_ExecutedIsValid ==
  \A t \in Slots :
    /\ task[t].pc = "idle" /\ task[t].handler = "generate_sql" =>
         /\ task[t].resp \in {"sql", "text"}
         /\ task[t].resp = "sql" <=> is_sql_valid(task[t].arg)
    /\ task[t].pc = "rs_call" => is_sql_valid(task[t].sql[1])

\* C21: the cache lock is never held while a language-model or database
\* call is in flight: a request inside run_in_executor does not hold the
\* lock, so the cache operation any other request is at can go on
C21_LockFreeInFlight ==
  \A a \in Slots :
    task[a].pc \in InFlightPcs =>
      /\ lock # a
      /\ \A b \in Slots \ {a} :
           task[b].pc \notin InFlightPcs \cup {"idle"} =>
             ENABLED Handler(b)

\* run_sql_with_retry of one request and is_sql_valid of another are in
\* flight together, after the second request stored its statement
C21_Witness ==
  \E a \in Slots, b \in Slots :
    /\ task[a].pc = "rs_call" /\ task[b].pc = "gs_valid"
    /\ task[a].id # task[b].id
    /\ SessionGet(cache, task[b].id, "sql") = Present(task[b].arg)
    /\ lock = NoTask

\* the fields each stage needs from earlier stages
StagePrerequisites(handler) ==
  CASE handler = "run_sql" -> {"sql"}
    [] handler \in {"fix_sql", "create_function"} -> {"question", "sql"}
    [] handler \in {"generate_plotly_figure", "generate_followup_questions"} ->
         {"df", "question", "sql"}
    [] handler = "generate_summary" -> {"df", "question"}
    [] OTHER -> {}

Lacking(c, r) ==
  {f \in StagePrerequisites(r.handler) : SessionGet(c, r.id, f) = Absent}

\* C29: a stage request whose id lacks a field written by an earlier stage
\* is rejected with HTTP 400 before any language-model or database call
\* and leaves the session cache unchanged: a request is rejected by a step
\* that leaves the cache as it is, before it made a call or wrote, and a
\* stage that makes a call, writes or answers otherwise lacks no field
C29_RejectedBeforeCalls ==
  [][\A t \in Slots :
       /\ task[t].pc # "idle" /\ task'[t].resp = "http400" =>
            /\ ~task[t].offloaded /\ ~task[t].wrote
            /\ cache' = cache
       /\ task'[t].pc # "idle" /\ (task'[t].offloaded \/ task'[t].wrote) =>
            Lacking(cache', task'[t]) = {}
       /\ task[t].pc # "idle" /\ task'[t].pc = "idle"
            /\ task'[t].resp # "http400" =>
            Lacking(cache', task[t]) = {}]_vars

\* generate_summary of an id that has a statement but no rows was rejected
C29_Witness ==
  \E t \in Slots :
    /\ task[t].pc = "idle" /\ task[t].resp = "http400"
    /\ task[t].handler = "generate_summary"
    /\ SessionGet(cache, task[t].id, "sql") # Absent
    /\ SessionGet(cache, task[t].id, "df") = Absent

HasFields(entry, fields) == \A f \in fields : entry[f] # Absent

\* C28: stage-dependency invariant of the session cache: for every request
\* id, fig_json or the plotly_code written by generate_plotly_figure is
\* present only with df, question and sql; summary only with df and
\* question; df only with sql
C28_StageDependency ==
  \A id \in DOMAIN cache :
    /\ (cache[id]["fig_json"] # Absent
          \/ cache[id]["plotly_code"] = Present("figure_code")) =>
         HasFields(cache[id], {"df", "question", "sql"})
    /\ cache[id]["summary"] # Absent =>
         HasFields(cache[id], {"df", "question"})
    /\ cache[id]["df"] # Absent => HasFields(cache[id], {"sql"})

\* an id whose rows were charted by generate_plotly_figure
C28_Witness ==
  \E id \in DOMAIN cache :
    /\ cache[id]["fig_json"] # Absent
    /\ cache[id]["plotly_code"] = Present("figure_code")

\* C22: session entries are never deleted by the pipeline: in every step
\* a field that is present stays present, unless the step is a delete(id),
\* which no handler takes and which removes the whole entry of id and
\* leaves the entries of the other ids as they are
C22_OnlyDeleteRemoves ==
  [][\A id \in DOMAIN cache :
       \/ /\ id \in DOMAIN cache'
          /\ \A f \in ApiFields :
               cache[id][f] # Absent => cache'[id][f] # Absent
       \/ /\ task' = task
          /\ DOMAIN cache' = DOMAIN cache \ {id}
          /\ \A other \in DOMAIN cache' : cache'[other] = cache[other]]_vars

\* the entry a request wrote to was deleted while another id is cached
C22_Witness ==
  \E t \in Slots :
    /\ task[t].pc # "idle" /\ task[t].wrote
    /\ task[t].id \notin DOMAIN cache
    /\ DOMAIN cache # {}

(***************************************************************************)
(* Validation properties                                                   *)
(***************************************************************************)
\* every closing parenthesis closes an earlier opening one, and none stays open
BalancedParens(s) ==
  /\ \A i \in 1..Len(s) :
       Count(SubSeq(s, 1, i), "(") >= Count(SubSeq(s, 1, i), ")")
  /\ Count(s, "(") = Count(s, ")")

\* the defects the validation rules list
HasListedDefect(s) ==
  \/ Strip(s) = <<>>
  \/ ~StartsWithStatement(s)
  \/ ~BalancedParens(s)
  \/ QuoteCountsOdd(s)
  \/ HasUnsupportedPattern(s)

\* C9: is_sql_valid returns false for every statement that is empty, does not
\* start with an allowed keyword, has unbalanced parentheses or quotes, or
\* contains a cross-dialect pattern, and true for every other statement.
C9_RejectsExactlyDefects ==
  val.pc = "returned" => (val.ok <=> ~HasListedDefect(val.sql))

\* the statement stops after the keyword WHERE: no predicate follows
WhereWithoutPredicate(s) ==
  EndsWith(LowerSeq(Strip(s)), <<" ", "w", "h", "e", "r", "e">>)

\* C18: is_sql_valid returns false for a statement whose WHERE clause has no
\* predicate, such as "SELECT * FROM discipline_data WHERE", the verdict
\* test_sql_validation expects for it
C18_RejectsIncompleteWhere ==
  (val.pc = "returned" /\ WhereWithoutPredicate(val.sql)) => ~val.ok

====
